---- MODULE Spec2Model ----
(***************************************************************************)
(* Model of the pipeline execution engine of bugbounty/runner.py:          *)
(* TaskRunner.run, TaskRunner._execute_pipeline (the control loop), the    *)
(* worker threads running TaskRunner._execute_task, the child processes,   *)
(* and the external stop request.                                          *)
(***************************************************************************)
EXTENDS Integers, Sequences, FiniteSets, TLC

\* Largest value of the `concurrency` key of tasks.yaml that is explored
\* (next to 1).
MaxConcurrency == 2

VARIABLES
    tasks,              \* self.tasks: task names in definition (dict) order
    needs,              \* Task.needs of every task
    kind,               \* Task.kind of every task: "shell" or "internal"
    concurrency,        \* self.concurrency
    use_database,       \* self.use_database
    run_id,             \* self.run_id (0 stands for None)
    stop,               \* stop flag file present / stop_event set
    status,             \* Task.status of every task
    task_id,            \* Task.task_id is set (start_task returned a row id)
    proc,               \* the child process of every task (Task.process)
    completed_tasks,    \* self.completed_tasks
    failed_tasks,       \* self.failed_tasks
    self_running_tasks, \* self.running_tasks (file-based tracking)
    running_tasks,      \* local dict running_tasks, keys in insertion order
    ready_tasks,        \* local list ready_tasks
    to_admit,           \* rest of ready_tasks[:available_slots] to start
    completed_futures,  \* local list completed_futures
    idx,                \* position of the current for loop of the control thread
    pc,                 \* position of the control thread
    stopped,            \* the control loop left through the stop branch
    wpc,                \* position of the worker (future) of every task
    outcome,            \* how the worker of a task ended
    admitted,           \* tasks in the order "Started task" was submitted
    success,            \* value returned by _execute_pipeline
    final_status,       \* final_status of TaskRunner.run
    start_time,         \* self.start_time is set
    progress,           \* the content of progress.json
    fs_names,           \* write_json/read_json: the inode each path names (0: none)
    fs_inodes,          \* the content of every inode: version and chunks written
    w_pc,               \* position of the caller of write_json
    w_fd,               \* the inode the writer has open
    w_count,            \* number of write_json calls so far
    r_pc,               \* position of the caller of read_json
    r_fd,               \* the inode the reader has open
    r_buf,              \* the chunks the reader has read
    r_first,            \* the version progress.json held when read_json began
    r_result,           \* what the last read_json returned
    v_pc,               \* validate_pipeline: position of the caller
    v_pipeline,         \* the `pipeline` list of tasks.yaml that was loaded
    v_tasks,            \* the task names of the definition, in order
    v_needs,            \* the needs list of every task of the definition
    v_kind,             \* the kind of every task of the definition
    v_cmd,              \* the command text of every task of the definition
    v_missing,          \* tasks whose command uses an undefined variable
    v_errors,           \* the list validate_pipeline returned
    m_pc,               \* materialize_env: position of the caller
    m_variables,        \* the mapping `variables`
    m_passes,           \* number of substitution passes made
    m_converged,        \* the loop was left by the break
    m_warned,           \* a warning was emitted
    k_pc,               \* position in _kill_process_tree
    k_os,               \* os.name of the platform
    k_caller,           \* the call site: the timeout handler or the cancellation
    k_leader,           \* the Popen process, leader of its process group
    k_children,         \* the running processes the command started, in its group
    k_signals,          \* the signals sent so far, each with its target
    k_slept,            \* the grace period has been waited
    d_pc,               \* position in the operation of Database
    d_op,               \* the operation called
    d_id,               \* its run id or task id argument
    d_status,           \* its status argument
    d_runs,             \* the committed rows of runs, by id
    d_tasks,            \* the committed rows of tasks, by id
    d_events,           \* the committed rows of events
    d_conn,             \* the rows as the operation's own connection sees them
    d_writer,           \* the connection that holds the write lock of the file
    d_error,            \* the exception raised in the operation
    l_file,             \* the lock file: the process that created it, or none
    l_pc,               \* position of each process in file_lock
    l_fd,               \* self.fd of the FileLock of each process
    l_tried,            \* the process has tried os.open in this acquire
    s_pc,               \* position in the scheduling loop of SimpleTaskRunner.run
    s_tasks,            \* tasks, the pipeline list
    s_completed,        \* self.completed_tasks
    s_failed,           \* self.failed_tasks
    s_attempt,          \* attempt, the passes begun
    s_i,                \* position of the for loop in tasks
    s_progress_made,    \* progress_made of the pass
    s_executed,         \* the positions in tasks whose task was executed
    s_stopped,          \* the loop ended on a stop request
    f_runs,             \* the ids of the runs in runs.json, in file order
    f_tasks,            \* the ids of the tasks in tasks.json, in file order
    f_events,           \* the ids of the events in events.json, in file order
    f_logged            \* the calls of log_event so far

\* The variables of TaskRunner.
runnerVars == <<tasks, needs, kind, concurrency, use_database, run_id, stop,
                status, task_id, proc, completed_tasks, failed_tasks,
                self_running_tasks, running_tasks, ready_tasks, to_admit,
                completed_futures, idx, pc, stopped, wpc, outcome, admitted,
                success, final_status, start_time, progress>>

\* The variables of write_json and read_json.
fileVars == <<fs_names, fs_inodes, w_pc, w_fd, w_count, r_pc, r_fd, r_buf,
              r_first, r_result>>

\* The variables of load_tasks and validate_pipeline.
validateVars == <<v_pc, v_pipeline, v_tasks, v_needs, v_kind, v_cmd, v_missing, v_errors>>

\* Components next to TaskRunner.
\* The variables of materialize_env.
templateVars == <<m_pc, m_variables, m_passes, m_converged, m_warned>>

\* The variables of _kill_process_tree.
killVars == <<k_pc, k_os, k_caller, k_leader, k_children, k_signals, k_slept>>

\* The variables of Database.
dbVars == <<d_pc, d_op, d_id, d_status, d_runs, d_tasks, d_events, d_conn, d_writer, d_error>>

\* The variables of FileLock.
lockVars == <<l_file, l_pc, l_fd, l_tried>>

\* The variables of SimpleTaskRunner.
simpleVars == <<s_pc, s_tasks, s_completed, s_failed, s_attempt, s_i, s_progress_made, s_executed, s_stopped>>

\* The variables of FileBasedDB.
filedbVars == <<f_runs, f_tasks, f_events, f_logged>>

\* The variables of the components other than TaskRunner, progress.json
\* and validation.
extraVars == <<templateVars, killVars, dbVars, lockVars, simpleVars, filedbVars>>

\* The variables no step of materialize_env changes.
except_template == <<runnerVars, fileVars, validateVars, killVars, dbVars, lockVars, simpleVars, filedbVars>>

\* The variables no step of _kill_process_tree changes.
except_kill == <<runnerVars, fileVars, validateVars, templateVars, dbVars, lockVars, simpleVars, filedbVars>>

\* The variables no step of Database changes.
except_db == <<runnerVars, fileVars, validateVars, templateVars, killVars, lockVars, simpleVars, filedbVars>>

\* The variables no step of FileLock changes.
except_lock == <<runnerVars, fileVars, validateVars, templateVars, killVars, dbVars, simpleVars, filedbVars>>

\* The variables no step of SimpleTaskRunner changes.
except_simple == <<runnerVars, fileVars, validateVars, templateVars, killVars, dbVars, lockVars, filedbVars>>

\* The variables no step of FileBasedDB changes.
except_filedb == <<runnerVars, fileVars, validateVars, templateVars, killVars, dbVars, lockVars, simpleVars>>

\* The variables outside TaskRunner, which no step of the runner changes.
auxVars == <<fileVars, validateVars, extraVars>>

vars == <<runnerVars, auxVars>>

\* The variables of the loaded pipeline, fixed after load_tasks.
pipelineVars == <<tasks, needs, kind, concurrency>>

\* The local variables of the control thread other than pc.
loopVars == <<running_tasks, ready_tasks, to_admit, completed_futures, idx>>

Range(s) == {s[i] : i \in 1..Len(s)}

Min(a, b) == IF a < b THEN a ELSE b

\* The elements of s that are not in S, in the order of s.
RECURSIVE Without(_, _)
Without(s, S) ==
    IF s = <<>> THEN <<>>
    ELSE IF Head(s) \in S THEN Without(Tail(s), S)
         ELSE <<Head(s)>> \o Without(Tail(s), S)

\* Pipelines of tasks.yaml that are explored: each is accepted by
\* validate_pipeline (every dependency is a task, no cycle).
Diamond ==
    [tasks |-> <<"A", "B", "C", "D">>,
     needs |-> ("A" :> {} @@ "B" :> {"A"} @@ "C" :> {"A"} @@ "D" :> {"B", "C"}),
     kind  |-> ("A" :> "shell" @@ "B" :> "shell" @@ "C" :> "shell" @@ "D" :> "shell")]

Chain ==
    [tasks |-> <<"A", "B", "C">>,
     needs |-> ("A" :> {} @@ "B" :> {"A"} @@ "C" :> {"B"}),
     kind  |-> ("A" :> "shell" @@ "B" :> "shell" @@ "C" :> "shell")]

Independent ==
    [tasks |-> <<"A", "B">>,
     needs |-> ("A" :> {} @@ "B" :> {}),
     kind  |-> ("A" :> "shell" @@ "B" :> "shell")]

Reversed ==
    [tasks |-> <<"A", "B">>,
     needs |-> ("A" :> {"B"} @@ "B" :> {}),
     kind  |-> ("A" :> "shell" @@ "B" :> "shell")]

WithInternal ==
    [tasks |-> <<"A", "B">>,
     needs |-> ("A" :> {} @@ "B" :> {"A"}),
     kind  |-> ("A" :> "shell" @@ "B" :> "internal")]

Pipelines == {Diamond, Chain, Independent, Reversed, WithInternal}

\* A variant of Task.is_ready that accepts a dependency that merely ended.
is_ready_ended(t, completed) ==
    \A dep \in needs[t] : dep \in completed \cup failed_tasks

\* A variant of Task.is_ready that is satisfied by one dependency.
is_ready_any(t, completed) ==
    needs[t] = {} \/ \E dep \in needs[t] : dep \in completed

\* Task.is_ready
is_ready(t, completed) == \A dep \in needs[t] : dep \in completed

\* A variant of available_slots that forgets the tasks already running.
available_slots_total == concurrency

\* available_slots of _execute_pipeline
available_slots == concurrency - Len(running_tasks)

\* A variant of the slice that takes the last ready tasks.
ReadySlice_last(ready) ==
    SubSeq(ready, Len(ready) - Min(Len(ready), available_slots) + 1, Len(ready))

\* the slice ready_tasks[:available_slots]
ReadySlice(ready) == SubSeq(ready, 1, Min(Len(ready), available_slots))

\* A variant of the result in which every exit code counts as success.
future_result_any_exit(t) == outcome[t] \in {"exit0", "internal_ok", "exit_nonzero"}

\* A variant of the result in which the timeout branch returns True.
future_result_timeout_ok(t) == outcome[t] \in {"exit0", "internal_ok", "timeout"}

\* Future.result() of the worker of t: the value _execute_task returned
future_result(t) == outcome[t] \in {"exit0", "internal_ok"}

\* Largest number of seconds between the start of the run and a progress
\* update that is explored.
MaxElapsed == 2

\* The elapsed times explored: the clock went back, no time has passed, or
\* MaxElapsed seconds have passed.
Elapsed == {-1, 0, MaxElapsed}

\* progress.json before the first _update_progress of the run
NoProgress ==
    [status |-> "none", total |-> 0, done |-> 0, current_task |-> "None",
     eta_seconds |-> {}]

\* A variant of the ETA without the test `elapsed > 0`.
eta_seconds_any_elapsed(completed, total, elapsed) ==
    IF elapsed # 0 /\ completed > 0 /\ total - completed > 0
    THEN {((total - completed) * elapsed) \div completed}
    ELSE {}

\* "Calculate ETA": {} stands for None, {n} for the integer n;
\* int(remaining / rate) with rate = completed / elapsed
eta_seconds(completed, total, elapsed) ==
    IF elapsed > 0 /\ completed > 0 /\ total - completed > 0
    THEN {((total - completed) * elapsed) \div completed}
    ELSE {}

\* "Find current running task" when the database is in use: the first task
\* of self.tasks with status RUNNING
first_running(st) ==
    LET running == {i \in 1..Len(tasks) : st[tasks[i]] = "RUNNING"}
    IN IF running = {} THEN "None"
       ELSE tasks[CHOOSE i \in running : \A j \in running : i <= j]

\* list(self.running_tasks)[0] if self.running_tasks else None: any
\* element of the set may come first
first_of(srt) == IF srt = {} THEN {"None"} ELSE srt

\* A variant of the count that always counts the tasks with status DONE.
count_completed_by_status(ud, st, cts) ==
    Cardinality({t \in Range(tasks) : st[t] = "DONE"})

\* "Count completed tasks": the tasks with status DONE when the database is
\* in use, else len(self.completed_tasks)
count_completed(ud, st, cts) ==
    IF ud /\ Len(tasks) > 0
    THEN Cardinality({t \in Range(tasks) : st[t] = "DONE"})
    ELSE Cardinality(cts)

\* The record _update_progress hands to write_json. ud: use_database after
\* get_run; run_status: the status of the run row when get_run returned it,
\* else "none"; st, cts, srt: Task.status, self.completed_tasks and
\* self.running_tasks; stime: self.start_time is set; cur: the element
\* list(self.running_tasks)[0] yields.
progress_data(ud, run_status, st, cts, srt, stime, elapsed, cur) ==
    LET completed == count_completed(ud, st, cts)
        total == Len(tasks)
    IN [status |-> IF run_status # "none" THEN run_status ELSE "running",
        total |-> total,
        done |-> completed,
        current_task |-> IF ud /\ Len(tasks) > 0 THEN first_running(st) ELSE cur,
        eta_seconds |-> IF run_status # "none" \/ stime
                        THEN eta_seconds(completed, total, elapsed)
                        ELSE {}]

\* progress.json does not exist, nobody is writing or reading it.
FileInit ==
    /\ fs_names = [target |-> 0, temp |-> 0]
    /\ fs_inodes = <<>>
    /\ w_pc = "idle"
    /\ w_fd = 0
    /\ w_count = 0
    /\ r_pc = "idle"
    /\ r_fd = 0
    /\ r_buf = <<>>
    /\ r_first = 0
    /\ r_result = [kind |-> "none", version |-> 0]

\* No definition has been loaded for validation.
ValidateInit ==
    /\ v_pc = "idle"
    /\ v_pipeline = <<>>
    /\ v_tasks = <<>>
    /\ v_needs = <<>>
    /\ v_kind = <<>>
    /\ v_cmd = <<>>
    /\ v_missing = {}
    /\ v_errors = <<>>

\* Before materialize_env is used.
TemplateInit ==
    /\ m_pc = "idle"
    /\ m_variables = <<>>
    /\ m_passes = 0
    /\ m_converged = FALSE
    /\ m_warned = FALSE

\* The processes a shell command starts next to the shell.
Children == {"c1", "c2"}

\* Before _kill_process_tree is used.
KillInit ==
    /\ k_pc = "idle"
    /\ k_os = "posix"
    /\ k_caller = "timeout"
    /\ k_leader = "alive"
    /\ k_children = Children
    /\ k_signals = <<>>
    /\ k_slept = FALSE

\* Before Database is used.
DbInit ==
    /\ d_pc = "idle"
    /\ d_op = "none"
    /\ d_id = 0
    /\ d_status = "none"
    /\ d_runs = <<>>
    /\ d_tasks = <<>>
    /\ d_events = <<>>
    /\ d_conn = [runs |-> <<>>, tasks |-> <<>>]
    /\ d_writer = "none"
    /\ d_error = "none"

\* The processes that run "bb run" for the same target.
Procs == {"p1", "p2", "p3"}

\* Before FileLock is used.
LockInit ==
    /\ l_file = "none"
    /\ l_pc = [p \in Procs |-> "idle"]
    /\ l_fd = [p \in Procs |-> "none"]
    /\ l_tried = [p \in Procs |-> FALSE]

\* Before SimpleTaskRunner is used.
SimpleInit ==
    /\ s_pc = "idle"
    /\ s_tasks = <<>>
    /\ s_completed = {}
    /\ s_failed = {}
    /\ s_attempt = 0
    /\ s_i = 0
    /\ s_progress_made = FALSE
    /\ s_executed = {}
    /\ s_stopped = FALSE

\* Before FileBasedDB is used.
FiledbInit ==
    /\ f_runs = <<>>
    /\ f_tasks = <<>>
    /\ f_events = <<>>
    /\ f_logged = 0

ExtraInit ==
    /\ TemplateInit
    /\ KillInit
    /\ DbInit
    /\ LockInit
    /\ SimpleInit
    /\ FiledbInit

\* Task.__init__ and TaskRunner.__init__: every task PENDING, no run, the
\* sets and the locals of the control loop empty.
Constructed ==
    /\ run_id = 0
    /\ stop = FALSE
    /\ status = [t \in Range(tasks) |-> "PENDING"]
    /\ task_id = [t \in Range(tasks) |-> FALSE]
    /\ proc = [t \in Range(tasks) |-> "none"]
    /\ completed_tasks = {}
    /\ failed_tasks = {}
    /\ self_running_tasks = {}
    /\ running_tasks = <<>>
    /\ ready_tasks = <<>>
    /\ to_admit = <<>>
    /\ completed_futures = <<>>
    /\ idx = 1
    /\ stopped = FALSE
    /\ wpc = [t \in Range(tasks) |-> "idle"]
    /\ outcome = [t \in Range(tasks) |-> "none"]
    /\ admitted = <<>>
    /\ success = "none"
    /\ final_status = "none"
    /\ start_time = FALSE
    /\ progress = NoProgress

\* Task.__init__ and TaskRunner.__init__, after load_tasks and validate_pipeline
Init ==
    /\ \E p \in Pipelines :
          /\ tasks = p.tasks
          /\ needs = p.needs
          /\ kind = p.kind
    /\ concurrency \in {1, MaxConcurrency}
    /\ use_database \in BOOLEAN
    /\ pc = "run_start"
    /\ Constructed
    /\ FileInit
    /\ ValidateInit
    /\ ExtraInit

\* _safe_db_call: the value of use_database after an operation that either
\* succeeded (dbok) or raised and switched the runner to file-based tracking.
safe_db_call(dbok) == use_database /\ dbok

\* The database part of _update_progress: get_run is called when the
\* database is in use and the run has an id.
update_progress_db(ud, rid, dbok) == IF ud /\ rid # 0 THEN dbok ELSE ud

\* _update_progress: get_run through _safe_db_call (dbok), then the record
\* is written to progress.json. run_status is the status of the run row.
update_progress(ud, rid, dbok, run_status, st, cts, srt, stime) ==
    \E elapsed \in Elapsed, cur \in first_of(srt) :
        progress' = progress_data(update_progress_db(ud, rid, dbok),
                                  IF ud /\ rid # 0 /\ dbok THEN run_status ELSE "none",
                                  st, cts, srt, stime, elapsed, cur)

(***************************************************************************)
(* TaskRunner.run up to the call of _execute_pipeline                      *)
(***************************************************************************)
RunStart ==
    /\ pc = "run_start"
    /\ \E dbok \in BOOLEAN, dbok2 \in BOOLEAN :
          LET rid == IF use_database THEN (IF dbok THEN 1 ELSE 0) ELSE 1
              ud  == IF use_database THEN dbok ELSE FALSE
          IN /\ run_id' = rid
             /\ use_database' = update_progress_db(ud, rid, dbok2)
             /\ start_time' = ~use_database
             /\ update_progress(ud, rid, dbok2, "RUNNING", status,
                                completed_tasks, self_running_tasks, ~use_database)
    /\ pc' = "loop_top"
    /\ UNCHANGED <<pipelineVars, auxVars, loopVars, stop, status, task_id, proc,
                   completed_tasks, failed_tasks, self_running_tasks, stopped,
                   wpc, outcome, admitted, success, final_status>>

(***************************************************************************)
(* TaskRunner._execute_pipeline: the control loop                          *)
(***************************************************************************)
\* "Check for stop signal"
CheckStop ==
    /\ pc = "loop_top"
    /\ IF stop
       THEN /\ pc' = "cancel"
            /\ stopped' = TRUE
            /\ UNCHANGED ready_tasks
       ELSE /\ pc' = "find_ready"
            /\ ready_tasks' = <<>>
            /\ UNCHANGED stopped
    /\ idx' = 1
    /\ UNCHANGED <<pipelineVars, auxVars, start_time, progress, use_database, run_id, stop, status, task_id,
                   proc, completed_tasks, failed_tasks, self_running_tasks,
                   running_tasks, to_admit, completed_futures, wpc, outcome,
                   admitted, success, final_status>>

\* A variant of the scan without the test of the status: a task that is
\* not in running_tasks is ready whenever its needs are completed.
FindReady_any_status ==
    /\ pc = "find_ready"
    /\ idx <= Len(tasks)
    /\ LET t == tasks[idx]
           ready == IF /\ is_ready(t, completed_tasks)
                       /\ t \notin Range(running_tasks)
                    THEN Append(ready_tasks, t)
                    ELSE ready_tasks
       IN /\ ready_tasks' = ready
          /\ IF idx = Len(tasks)
             THEN /\ pc' = "admit"
                  /\ to_admit' = ReadySlice(ready)
             ELSE UNCHANGED <<pc, to_admit>>
    /\ idx' = idx + 1
    /\ UNCHANGED <<pipelineVars, auxVars, start_time, progress, use_database, run_id, stop, status, task_id,
                   proc, completed_tasks, failed_tasks, self_running_tasks,
                   running_tasks, completed_futures, stopped, wpc, outcome,
                   admitted, success, final_status>>

\* "Find ready tasks": one pass of the for loop over self.tasks; after the
\* last task, available_slots and the slice of ready_tasks are computed.
FindReady ==
    /\ pc = "find_ready"
    /\ idx <= Len(tasks)
    /\ LET t == tasks[idx]
           ready == IF /\ status[t] = "PENDING"
                       /\ is_ready(t, completed_tasks)
                       /\ t \notin Range(running_tasks)
                    THEN Append(ready_tasks, t)
                    ELSE ready_tasks
       IN /\ ready_tasks' = ready
          /\ IF idx = Len(tasks)
             THEN /\ pc' = "admit"
                  /\ to_admit' = ReadySlice(ready)
             ELSE UNCHANGED <<pc, to_admit>>
    /\ idx' = idx + 1
    /\ UNCHANGED <<pipelineVars, auxVars, start_time, progress, use_database, run_id, stop, status, task_id,
                   proc, completed_tasks, failed_tasks, self_running_tasks,
                   running_tasks, completed_futures, stopped, wpc, outcome,
                   admitted, success, final_status>>

\* "Start ready tasks": executor.submit and running_tasks[task.name] = ...
Submit ==
    /\ pc = "admit"
    /\ to_admit # <<>>
    /\ LET t == Head(to_admit)
       IN /\ wpc' = [wpc EXCEPT ![t] = "queued"]
          /\ running_tasks' = Append(running_tasks, t)
          /\ admitted' = Append(admitted, t)
    /\ pc' = "mark_running"
    /\ UNCHANGED <<pipelineVars, auxVars, start_time, progress, use_database, run_id, stop, status, task_id,
                   proc, completed_tasks, failed_tasks, self_running_tasks,
                   ready_tasks, to_admit, completed_futures, idx, stopped,
                   outcome, success, final_status>>

\* task.status = TaskStatus.RUNNING
MarkRunning ==
    /\ pc = "mark_running"
    /\ status' = [status EXCEPT ![Head(to_admit)] = "RUNNING"]
    /\ to_admit' = Tail(to_admit)
    /\ pc' = "admit"
    /\ UNCHANGED <<pipelineVars, auxVars, start_time, progress, use_database, run_id, stop, task_id, proc,
                   completed_tasks, failed_tasks, self_running_tasks,
                   running_tasks, ready_tasks, completed_futures, idx, stopped,
                   wpc, outcome, admitted, success, final_status>>

\* the end of the admission loop
AdmitDone ==
    /\ pc = "admit"
    /\ to_admit = <<>>
    /\ pc' = "reap"
    /\ idx' = 1
    /\ completed_futures' = <<>>
    /\ UNCHANGED <<pipelineVars, auxVars, start_time, progress, use_database, run_id, stop, status, task_id,
                   proc, completed_tasks, failed_tasks, self_running_tasks,
                   running_tasks, ready_tasks, to_admit, stopped, wpc, outcome,
                   admitted, success, final_status>>

\* "Check completed tasks": one pass of the for loop over running_tasks
Reap ==
    /\ pc = "reap"
    /\ idx <= Len(running_tasks)
    /\ LET t == running_tasks[idx]
       IN IF wpc[t] = "done"
          THEN /\ IF future_result(t)
                  THEN /\ status' = [status EXCEPT ![t] = "DONE"]
                       /\ completed_tasks' = completed_tasks \cup {t}
                       /\ UNCHANGED failed_tasks
                  ELSE /\ status' = [status EXCEPT ![t] = "ERROR"]
                       /\ failed_tasks' = failed_tasks \cup {t}
                       /\ UNCHANGED completed_tasks
               /\ completed_futures' = Append(completed_futures, t)
               /\ \E dbok \in BOOLEAN :
                     /\ use_database' = update_progress_db(use_database, run_id, dbok)
                     /\ update_progress(use_database, run_id, dbok, "RUNNING",
                                        status', completed_tasks',
                                        self_running_tasks, start_time)
          ELSE UNCHANGED <<status, completed_tasks, failed_tasks,
                           completed_futures, use_database, progress>>
    /\ idx' = idx + 1
    /\ UNCHANGED <<pipelineVars, auxVars, start_time, run_id, stop, task_id, proc,
                   self_running_tasks, running_tasks, ready_tasks, to_admit,
                   pc, stopped, wpc, outcome, admitted, success, final_status>>

\* A variant of the exit test that waits until no task is PENDING.
loop_done_no_pending(remaining) ==
    remaining = <<>> /\ \A t \in Range(tasks) : status[t] # "PENDING"

\* "Check if we're done": not running_tasks and not ready_tasks
loop_done(remaining) == remaining = <<>> /\ ready_tasks = <<>>

\* "Remove completed tasks", "Check if we're done" and the sleep; the lists
\* of the pass (ready_tasks, completed_futures) are rebuilt by the next pass
\* before they are read again and are emptied here.
CheckDone ==
    /\ pc = "reap"
    /\ idx > Len(running_tasks)
    /\ LET remaining == Without(running_tasks, Range(completed_futures))
       IN /\ running_tasks' = remaining
          /\ pc' = IF loop_done(remaining) THEN "shutdown" ELSE "loop_top"
    /\ completed_futures' = <<>>
    /\ ready_tasks' = <<>>
    /\ idx' = 1
    /\ UNCHANGED <<pipelineVars, auxVars, start_time, progress, use_database, run_id,
                   stop, status, task_id, proc, completed_tasks, failed_tasks,
                   self_running_tasks, to_admit, stopped, wpc, outcome,
                   admitted, success, final_status>>

(***************************************************************************)
(* TaskRunner._cancel_running_tasks                                        *)
(***************************************************************************)
\* A variant of the pass that leaves a task whose future is done as it is.
mark_cancelled_unless_done(t, dbok) ==
    /\ status' = IF wpc[t] = "done" THEN status
                 ELSE [status EXCEPT ![t] = "CANCELLED"]
    /\ IF use_database /\ task_id[t]
       THEN /\ use_database' = (use_database /\ dbok)
            /\ UNCHANGED self_running_tasks
       ELSE /\ self_running_tasks' = self_running_tasks \ {t}
            /\ UNCHANGED use_database

\* the end of one pass of the for loop: status, end_task or discard
mark_cancelled(t, dbok) ==
    /\ status' = [status EXCEPT ![t] = "CANCELLED"]
    /\ IF use_database /\ task_id[t]
       THEN /\ use_database' = safe_db_call(dbok)
            /\ UNCHANGED self_running_tasks
       ELSE /\ self_running_tasks' = self_running_tasks \ {t}
            /\ UNCHANGED use_database

\* future.cancel(): only a future that has not started is cancelled
future_cancel(t) == IF wpc[t] = "queued" THEN [wpc EXCEPT ![t] = "cancelled"] ELSE wpc

\* _kill_process_tree: SIGTERM to the process group, the grace period, then
\* SIGKILL; a process that has already exited is left as it is.
kill_process_tree(p) == IF p = "alive" THEN "killed" ELSE p

\* one pass of the for loop: future.cancel(), _kill_process_tree when
\* task.process is set, status, end_task or discard
CancelTask ==
    /\ pc = "cancel"
    /\ idx <= Len(running_tasks)
    /\ LET t == running_tasks[idx]
       IN /\ wpc' = future_cancel(t)
          /\ proc' = [proc EXCEPT ![t] = kill_process_tree(proc[t])]
          /\ \E dbok \in BOOLEAN : mark_cancelled(t, dbok)
    /\ idx' = idx + 1
    /\ UNCHANGED <<pipelineVars, auxVars, start_time, progress, run_id, stop, task_id, completed_tasks,
                   failed_tasks, running_tasks, ready_tasks, to_admit,
                   completed_futures, pc, stopped, outcome, admitted, success,
                   final_status>>

\* A variant of the stop branch without the break: the pass goes on.
CancelDone_no_break ==
    /\ pc = "cancel"
    /\ idx > Len(running_tasks)
    /\ pc' = "find_ready"
    /\ idx' = 1
    /\ ready_tasks' = <<>>
    /\ UNCHANGED <<pipelineVars, auxVars, start_time, progress, running_tasks, to_admit,
                   completed_futures, use_database, run_id, stop, status,
                   task_id, proc, completed_tasks, failed_tasks,
                   self_running_tasks, stopped, wpc, outcome, admitted, success,
                   final_status>>

\* the break after _cancel_running_tasks
CancelDone ==
    /\ pc = "cancel"
    /\ idx > Len(running_tasks)
    /\ pc' = "shutdown"
    /\ UNCHANGED <<pipelineVars, auxVars, start_time, progress, loopVars, use_database, run_id, stop, status,
                   task_id, proc, completed_tasks, failed_tasks,
                   self_running_tasks, stopped, wpc, outcome, admitted, success,
                   final_status>>

\* finally: executor.shutdown(wait=True), then "Check final status"
Shutdown ==
    /\ pc = "shutdown"
    /\ \A t \in Range(tasks) : wpc[t] \in {"idle", "done", "cancelled"}
    /\ success' = IF Cardinality(failed_tasks) = 0 THEN "True" ELSE "False"
    /\ pc' = "end_run"
    /\ UNCHANGED <<pipelineVars, auxVars, start_time, progress, loopVars, use_database, run_id, stop, status,
                   task_id, proc, completed_tasks, failed_tasks,
                   self_running_tasks, stopped, wpc, outcome, admitted,
                   final_status>>

(***************************************************************************)
(* TaskRunner.run after _execute_pipeline: "End run"                       *)
(***************************************************************************)
EndRun ==
    /\ pc = "end_run"
    /\ final_status' = IF success = "True" THEN "DONE" ELSE "ERROR"
    /\ \E dbok \in BOOLEAN, dbok2 \in BOOLEAN :
          LET ud == IF use_database THEN safe_db_call(dbok) ELSE use_database
          IN /\ use_database' = update_progress_db(ud, run_id, dbok2)
             /\ update_progress(ud, run_id, dbok2, final_status', status,
                                completed_tasks, self_running_tasks, start_time)
    /\ pc' = "returned"
    /\ UNCHANGED <<pipelineVars, auxVars, start_time, loopVars, run_id, stop, status,
                   task_id, proc, completed_tasks, failed_tasks,
                   self_running_tasks, stopped, wpc, outcome, admitted, success>>

(***************************************************************************)
(* TaskRunner._execute_task, run by a worker thread of the executor        *)
(***************************************************************************)
\* The bookkeeping at the end of _execute_shell_task and
\* _execute_internal_task: end_task when the database is in use and the task
\* has a row id, else the file-based sets of the runner.
track_end(t, ok, dbok) ==
    IF use_database /\ task_id[t]
    THEN /\ use_database' = safe_db_call(dbok)
         /\ UNCHANGED <<self_running_tasks, completed_tasks, failed_tasks>>
    ELSE /\ self_running_tasks' = self_running_tasks \ {t}
         /\ IF ok
            THEN /\ completed_tasks' = completed_tasks \cup {t}
                 /\ UNCHANGED failed_tasks
            ELSE /\ failed_tasks' = failed_tasks \cup {t}
                 /\ UNCHANGED completed_tasks
         /\ UNCHANGED use_database

\* "Start task in database (if available)", else self.running_tasks.add
WorkerStart(t) ==
    /\ wpc[t] = "queued"
    /\ wpc' = [wpc EXCEPT ![t] = "started"]
    /\ IF use_database
       THEN /\ \E dbok \in BOOLEAN :
                  /\ task_id' = [task_id EXCEPT ![t] = dbok]
                  /\ use_database' = safe_db_call(dbok)
            /\ UNCHANGED self_running_tasks
       ELSE /\ self_running_tasks' = self_running_tasks \cup {t}
            /\ UNCHANGED <<task_id, use_database>>
    /\ UNCHANGED <<pipelineVars, auxVars, start_time, progress, loopVars, run_id, stop, status, proc,
                   completed_tasks, failed_tasks, pc, stopped, outcome,
                   admitted, success, final_status>>

\* _execute_shell_task: subprocess.Popen succeeds, task.process = process
Spawn(t) ==
    /\ wpc[t] = "started"
    /\ kind[t] = "shell"
    /\ proc' = [proc EXCEPT ![t] = "alive"]
    /\ wpc' = [wpc EXCEPT ![t] = "waiting"]
    /\ UNCHANGED <<pipelineVars, auxVars, start_time, progress, loopVars, use_database, run_id, stop, status,
                   task_id, completed_tasks, failed_tasks, self_running_tasks,
                   pc, stopped, outcome, admitted, success, final_status>>

\* _execute_shell_task: opening the logs or Popen raises ("except Exception")
SpawnFail(t) ==
    /\ wpc[t] = "started"
    /\ kind[t] = "shell"
    /\ outcome' = [outcome EXCEPT ![t] = "spawn_fail"]
    /\ \E dbok \in BOOLEAN : track_end(t, FALSE, dbok)
    /\ wpc' = [wpc EXCEPT ![t] = "returning"]
    /\ UNCHANGED <<pipelineVars, auxVars, start_time, progress, loopVars, run_id, stop, status, task_id, proc,
                   pc, stopped, admitted, success, final_status>>

\* _execute_internal_task: the operation returns (ok) or raises
Internal(t, ok) ==
    /\ wpc[t] = "started"
    /\ kind[t] = "internal"
    /\ outcome' = [outcome EXCEPT ![t] = IF ok THEN "internal_ok" ELSE "internal_raise"]
    /\ \E dbok \in BOOLEAN : track_end(t, ok, dbok)
    /\ wpc' = [wpc EXCEPT ![t] = "returning"]
    /\ UNCHANGED <<pipelineVars, auxVars, start_time, progress, loopVars, run_id, stop, status, task_id, proc,
                   pc, stopped, admitted, success, final_status>>

\* The command exits by itself with code 0 or another code and
\* process.wait(timeout) returns it: "Update database and state"
WaitReturns(t, zero) ==
    /\ wpc[t] = "waiting"
    /\ proc[t] = "alive"
    /\ proc' = [proc EXCEPT ![t] = IF zero THEN "exit0" ELSE "exit1"]
    /\ outcome' = [outcome EXCEPT ![t] = IF zero THEN "exit0" ELSE "exit_nonzero"]
    /\ \E dbok \in BOOLEAN : track_end(t, zero, dbok)
    /\ wpc' = [wpc EXCEPT ![t] = "returning"]
    /\ UNCHANGED <<pipelineVars, auxVars, start_time, progress, loopVars, run_id, stop, status, task_id, pc,
                   stopped, admitted, success, final_status>>

\* process.wait(timeout) returns the negative code of a process that
\* _cancel_running_tasks killed
WaitKilled(t) ==
    /\ wpc[t] = "waiting"
    /\ proc[t] = "killed"
    /\ outcome' = [outcome EXCEPT ![t] = "signalled"]
    /\ \E dbok \in BOOLEAN : track_end(t, FALSE, dbok)
    /\ wpc' = [wpc EXCEPT ![t] = "returning"]
    /\ UNCHANGED <<pipelineVars, auxVars, start_time, progress, loopVars, run_id, stop, status, task_id, proc,
                   pc, stopped, admitted, success, final_status>>

\* A variant of the timeout branch whose kill reaches the process group of
\* every task.
Timeout_kills_all(t) ==
    /\ wpc[t] = "waiting"
    /\ proc[t] = "alive"
    /\ proc' = [u \in Range(tasks) |-> kill_process_tree(proc[u])]
    /\ outcome' = [outcome EXCEPT ![t] = "timeout"]
    /\ \E dbok \in BOOLEAN : track_end(t, FALSE, dbok)
    /\ wpc' = [wpc EXCEPT ![t] = "returning"]
    /\ UNCHANGED <<pipelineVars, auxVars, start_time, progress, loopVars, run_id, stop, status, task_id, pc,
                   stopped, admitted, success, final_status>>

\* process.wait(timeout) raises TimeoutExpired: _kill_process_tree, then
\* the bookkeeping of the timeout
Timeout(t) ==
    /\ wpc[t] = "waiting"
    /\ proc[t] = "alive"
    /\ proc' = [proc EXCEPT ![t] = kill_process_tree(proc[t])]
    /\ outcome' = [outcome EXCEPT ![t] = "timeout"]
    /\ \E dbok \in BOOLEAN : track_end(t, FALSE, dbok)
    /\ wpc' = [wpc EXCEPT ![t] = "returning"]
    /\ UNCHANGED <<pipelineVars, auxVars, start_time, progress, loopVars, run_id, stop, status, task_id, pc,
                   stopped, admitted, success, final_status>>

\* _execute_task returns: the future is done
WorkerReturn(t) ==
    /\ wpc[t] = "returning"
    /\ wpc' = [wpc EXCEPT ![t] = "done"]
    /\ UNCHANGED <<pipelineVars, auxVars, start_time, progress, loopVars, use_database, run_id, stop, status,
                   task_id, proc, completed_tasks, failed_tasks,
                   self_running_tasks, pc, stopped, outcome, admitted, success,
                   final_status>>

(***************************************************************************)
(* TaskRunner.stop / create_stop_flag, called by the CLI or the bot        *)
(***************************************************************************)
RequestStop ==
    /\ ~stop
    /\ pc # "returned"
    /\ stop' = TRUE
    /\ UNCHANGED <<pipelineVars, auxVars, start_time, progress, loopVars, use_database, run_id, status,
                   task_id, proc, completed_tasks, failed_tasks,
                   self_running_tasks, pc, stopped, wpc, outcome, admitted,
                   success, final_status>>

Control ==
    \/ RunStart
    \/ CheckStop
    \/ FindReady
    \/ Submit
    \/ MarkRunning
    \/ AdmitDone
    \/ Reap
    \/ CheckDone
    \/ CancelTask
    \/ CancelDone
    \/ Shutdown
    \/ EndRun

Worker(t) ==
    \/ WorkerStart(t)
    \/ Spawn(t)
    \/ SpawnFail(t)
    \/ \E ok \in BOOLEAN : Internal(t, ok)
    \/ \E zero \in BOOLEAN : WaitReturns(t, zero)
    \/ WaitKilled(t)
    \/ Timeout(t)
    \/ WorkerReturn(t)

Next ==
    \/ Control
    \/ \E t \in Range(tasks) : Worker(t)
    \/ RequestStop

Spec == Init /\ [][Next]_vars

\* The scheduling of the threads: the control thread and every worker thread
\* keep running, every command exits or hits its timeout; a stop request
\* may never come.
TaskNames == {"A", "B", "C", "D"}

Fairness ==
    /\ WF_vars(Control)
    /\ \A t \in TaskNames : WF_vars(t \in Range(tasks) /\ Worker(t))

LiveSpec == Init /\ [][Next]_vars /\ Fairness

\* The tasks t depends on, directly or transitively.
RECURSIVE Deps(_)
Deps(t) == needs[t] \cup UNION {Deps(d) : d \in needs[t]}

\* The tasks whose worker has been submitted and has not returned.
Executing == {t \in Range(tasks) : wpc[t] \in {"queued", "started", "waiting", "returning"}}

\* The run is over: TaskRunner.run has returned.
Returned == pc = "returned"

(***************************************************************************)
(* Properties                                                              *)
(***************************************************************************)

\* C1: a task is submitted to the executor only after the worker of every
\* task in its needs has ended successfully (exit code 0, or the internal
\* operation returned).
C1_AdmittedAfterNeedsSucceeded ==
    \A t \in Range(tasks) :
        wpc[t] # "idle" => \A dep \in needs[t] : outcome[dep] \in {"exit0", "internal_ok"}

C1_Witness ==
    \E t \in Range(tasks) : Cardinality(needs[t]) = 2 /\ wpc[t] = "queued"

C3_AtMostConcurrencyActive ==
    /\ Len(running_tasks) <= concurrency
    /\ Cardinality(Executing) <= concurrency
    /\ Cardinality({t \in Range(tasks) : proc[t] = "alive"}) <= concurrency

C3_Witness ==
    /\ pc = "reap"
    /\ Len(running_tasks) = concurrency
    /\ Len(ready_tasks) > Len(ReadySlice(ready_tasks))
    /\ \A t \in Range(running_tasks) : proc[t] = "alive"

\* C4: when every command exits with code 0 and no stop is requested, the
\* run returns with every task DONE and reports success; the diamond with
\* concurrency 2 is admitted in the order A, B, C, D.
C4_AllDoneWhenAllSucceed ==
    (/\ Returned
     /\ ~stop
     /\ \A t \in Range(tasks) : outcome[t] \in {"none", "exit0", "internal_ok"})
        => /\ \A t \in Range(tasks) : status[t] = "DONE"
           /\ success = "True"
           /\ (tasks = Diamond.tasks /\ concurrency = 2
                  => admitted = <<"A", "B", "C", "D">>)

\* C5: no task that depends, directly or transitively, on a task with status
\* ERROR is RUNNING or DONE.
C5_NoDependentOfErrorRuns ==
    \A d \in Range(tasks), t \in Range(tasks) :
        (status[d] = "ERROR" /\ d \in Deps(t)) => status[t] \notin {"RUNNING", "DONE"}

C5_Witness ==
    /\ Returned
    /\ \E d \in Range(tasks), t \in Range(tasks) :
          /\ status[d] = "ERROR"
          /\ d \in Deps(t) \ needs[t]
          /\ status[t] = "PENDING"

\* C6: when the run has ended, no task has status PENDING or RUNNING.
C6_NoTaskLeftPendingOrRunning ==
    Returned => \A t \in Range(tasks) : status[t] \notin {"PENDING", "RUNNING"}

\* C7: under fair scheduling of the control thread and the workers, the
\* run eventually returns.
C7_RunReturns == <>Returned

C7_Witness ==
    /\ Returned
    /\ ~stopped
    /\ \E d \in Range(tasks), t \in Range(tasks) :
          /\ outcome[d] = "exit_nonzero"
          /\ d \in needs[t]
          /\ wpc[t] = "idle"

\* C8: once the control loop has observed the stop signal, no task is
\* submitted any more, and when _cancel_running_tasks is over every task of
\* running_tasks has status CANCELLED.
C8_StopCancelsActiveAndAdmission ==
    [][/\ stopped => admitted' = admitted /\ running_tasks' = running_tasks
       /\ (stopped' /\ pc' \in {"shutdown", "end_run", "returned"})
             => \A t \in Range(running_tasks') : status'[t] = "CANCELLED"]_vars

C8_Witness ==
    /\ stopped
    /\ Returned
    /\ Len(running_tasks) = 2
    /\ \E t \in Range(tasks) : status[t] = "PENDING"

\* C9: when the control loop left through the stop branch, the final status
\* of the run is CANCELLED.
C9_StoppedRunIsCancelled ==
    (Returned /\ stopped) => final_status = "CANCELLED"

C13_SnapshotWellFormed ==
    /\ progress.done \in 0..progress.total
    /\ \A eta \in progress.eta_seconds : eta \in Nat

C13_Witness ==
    /\ progress.eta_seconds # {}
    /\ progress.done >= 1
    /\ progress.done < progress.total
    /\ \E t \in Range(tasks) : task_id[t] /\ ~use_database

\* C16: a task that has a child process does not have status PENDING.
C16_RunningBeforeSpawn ==
    \A t \in Range(tasks) : proc[t] # "none" => status[t] # "PENDING"

\* C17: a step of a worker thread leaves self.completed_tasks,
\* self.failed_tasks and self.running_tasks as they are.
C17_WorkersLeaveSetsAlone ==
    [][(\E t \in Range(tasks) : Worker(t))
          => UNCHANGED <<completed_tasks, failed_tasks, self_running_tasks>>]_vars

\* C18: once _cancel_running_tasks is over, no command of a task is running.
C18_NoCommandAfterCancel ==
    (stopped /\ pc \in {"shutdown", "end_run", "returned"})
        => \A t \in Range(tasks) : proc[t] # "alive"

\* C19: at the start of every pass of the control loop and when the loop
\* is left, completed_tasks is the set of tasks with status DONE,
\* failed_tasks the set with status ERROR or CANCELLED, and running_tasks
\* the set with status RUNNING.
C19_SetsMatchStatus ==
    pc \in {"loop_top", "shutdown"} =>
        /\ completed_tasks = {t \in Range(tasks) : status[t] = "DONE"}
        /\ failed_tasks = {t \in Range(tasks) : status[t] \in {"ERROR", "CANCELLED"}}
        /\ Range(running_tasks) = {t \in Range(tasks) : status[t] = "RUNNING"}

\* C20: the status of a task changes only from PENDING to RUNNING and from
\* RUNNING to DONE, ERROR or CANCELLED.
C20_StatusLifecycle ==
    [][\A t \in Range(tasks) :
          status'[t] # status[t] =>
              \/ status[t] = "PENDING" /\ status'[t] = "RUNNING"
              \/ status[t] = "RUNNING" /\ status'[t] \in {"DONE", "ERROR", "CANCELLED"}]_vars

C20_Witness ==
    /\ Returned
    /\ \E t \in Range(tasks) : status[t] = "DONE"
    /\ \E t \in Range(tasks) : status[t] = "CANCELLED" /\ wpc[t] = "done"
    /\ \E t \in Range(tasks) : status[t] = "CANCELLED" /\ wpc[t] = "cancelled"

(***************************************************************************)
(* utils.write_json and utils.read_json on progress.json: the file system  *)
(* maps a path to an inode, an inode holds the chunks written so far of    *)
(* one version of the data; a complete file has FileLen chunks.            *)
(***************************************************************************)
\* Number of write_json calls explored.
MaxWrites == 3

\* Number of chunks json.dump writes for one record.
FileLen == 2

\* The version of the complete record progress.json names (0: no file).
Committed ==
    IF fs_names.target = 0 THEN 0 ELSE fs_inodes[fs_names.target].version

\* A variant of the temporary path that is the path of the file itself.
temp_file_in_place == "target"

\* temp_file = file_path.with_suffix('.tmp')
temp_file == "temp"

\* open(temp_file, 'w'): the file is created, or truncated when it exists
W_Open ==
    /\ w_pc = "idle"
    /\ w_count < MaxWrites
    /\ w_count' = w_count + 1
    /\ IF fs_names[temp_file] = 0
       THEN /\ fs_inodes' = Append(fs_inodes, [version |-> w_count + 1, len |-> 0])
            /\ fs_names' = [fs_names EXCEPT ![temp_file] = Len(fs_inodes) + 1]
            /\ w_fd' = Len(fs_inodes) + 1
       ELSE /\ fs_inodes' = [fs_inodes EXCEPT ![fs_names[temp_file]] =
                                [version |-> w_count + 1, len |-> 0]]
            /\ w_fd' = fs_names[temp_file]
            /\ UNCHANGED fs_names
    /\ w_pc' = "dump"
    /\ UNCHANGED <<runnerVars, validateVars, extraVars, r_pc, r_fd, r_buf, r_first, r_result>>

\* json.dump: one more chunk reaches the file; after the last one the file
\* is closed
W_Write ==
    /\ w_pc = "dump"
    /\ fs_inodes' = [fs_inodes EXCEPT ![w_fd].len = @ + 1]
    /\ w_pc' = IF fs_inodes[w_fd].len + 1 = FileLen THEN "replace" ELSE "dump"
    /\ UNCHANGED <<runnerVars, validateVars, extraVars, fs_names, w_fd, w_count, r_pc, r_fd, r_buf,
                   r_first, r_result>>

\* temp_file.replace(file_path): the path of the file names the inode of
\* the temporary file, in one step
W_Replace ==
    /\ w_pc = "replace"
    /\ fs_names' = IF temp_file = "target" THEN fs_names
                   ELSE [target |-> fs_names[temp_file], temp |-> 0]
    /\ w_pc' = "idle"
    /\ w_fd' = 0
    /\ UNCHANGED <<runnerVars, validateVars, extraVars, fs_inodes, w_count, r_pc, r_fd, r_buf, r_first,
                   r_result>>

\* json.dump raises: "Clean up temp file on error", then the exception is
\* raised again
W_Fail ==
    /\ w_pc = "dump"
    /\ fs_names' = [fs_names EXCEPT ![temp_file] = 0]
    /\ w_pc' = "idle"
    /\ w_fd' = 0
    /\ UNCHANGED <<runnerVars, validateVars, extraVars, fs_inodes, w_count, r_pc, r_fd, r_buf, r_first,
                   r_result>>

\* file_path.exists(): the default is returned when there is no file
R_Exists ==
    /\ r_pc = "idle"
    /\ r_first' = Committed
    /\ r_buf' = <<>>
    /\ IF fs_names.target = 0
       THEN /\ r_result' = [kind |-> "default", version |-> 0]
            /\ UNCHANGED r_pc
       ELSE /\ r_result' = [kind |-> "none", version |-> 0]
            /\ r_pc' = "open"
    /\ UNCHANGED <<runnerVars, validateVars, extraVars, fs_names, fs_inodes, w_pc, w_fd, w_count, r_fd>>

\* open(file_path, 'r'): the reader holds the inode the path names now
R_Open ==
    /\ r_pc = "open"
    /\ IF fs_names.target = 0
       THEN /\ r_result' = [kind |-> "default", version |-> 0]
            /\ r_pc' = "idle"
            /\ UNCHANGED r_fd
       ELSE /\ r_fd' = fs_names.target
            /\ r_pc' = "read"
            /\ UNCHANGED r_result
    /\ UNCHANGED <<runnerVars, validateVars, extraVars, fs_names, fs_inodes, w_pc, w_fd, w_count, r_buf,
                   r_first>>

\* What json.load makes of the chunks read: the record of one version when
\* all FileLen chunks of that version are there, else JSONDecodeError, for
\* which read_json returns the default.
parse(buf) ==
    IF Len(buf) = FileLen /\ \A i \in 1..Len(buf) : buf[i] = buf[1]
    THEN [kind |-> "data", version |-> buf[1]]
    ELSE [kind |-> "invalid", version |-> 0]

\* json.load: the next chunk of the open inode is read, or at the end of
\* the file the chunks are parsed
R_Read ==
    /\ r_pc = "read"
    /\ IF Len(r_buf) < fs_inodes[r_fd].len
       THEN /\ r_buf' = Append(r_buf, fs_inodes[r_fd].version)
            /\ UNCHANGED <<r_pc, r_fd, r_result>>
       ELSE /\ r_result' = parse(r_buf)
            /\ r_pc' = "idle"
            /\ r_fd' = 0
            /\ UNCHANGED r_buf
    /\ UNCHANGED <<runnerVars, validateVars, extraVars, fs_names, fs_inodes, w_pc, w_fd, w_count, r_first>>

FileNext ==
    \/ W_Open
    \/ W_Write
    \/ W_Replace
    \/ W_Fail
    \/ R_Exists
    \/ R_Open
    \/ R_Read

\* One runner that has not started its run.
IdleRunnerInit ==
    /\ Init
    /\ tasks = Reversed.tasks
    /\ needs = Reversed.needs
    /\ kind = Reversed.kind
    /\ concurrency = 1
    /\ ~use_database

FileSpec == IdleRunnerInit /\ [][FileNext]_vars

\* C12: read_json never returns from a partially written file: what it
\* parses is the complete record that progress.json held when the read
\* began or a complete record written since.
C12_ReaderSeesCompleteSnapshot ==
    /\ r_result.kind # "invalid"
    /\ r_result.kind = "data" =>
          (r_result.version >= r_first /\ r_result.version <= Committed)
    /\ r_result.kind = "default" => r_first = 0

C12_Witness ==
    /\ r_result.kind = "data"
    /\ r_result.version = 1
    /\ Committed = 2
    /\ w_pc = "dump"
    /\ fs_inodes[w_fd].len = 1

----------------------------------------------------------------------------
\* load_tasks and validate_pipeline on a pipeline definition.

\* The longest needs list of a task of a checked definition.
MaxNeeds == 2

\* The names a needs entry of a checked definition can hold.
Names == {"A", "B", "C"}

\* The needs lists: no name twice, at most MaxNeeds names.
NeedsLists ==
    {s \in UNION {[1..n -> Names] : n \in 0..MaxNeeds} :
        \A i, j \in 1..Len(s) : s[i] = s[j] => i = j}

\* The messages validate_pipeline appends, by their content.
UnknownError(t, dep) ==
    [kind |-> "unknown", task |-> t, dep |-> dep, path |-> <<>>]

CircularError(t, path) ==
    [kind |-> "circular", task |-> t, dep |-> "", path |-> path]

UndefinedError(t) ==
    [kind |-> "undefined", task |-> t, dep |-> "", path |-> <<>>]

RECURSIVE unknown_errors(_, _, _)
RECURSIVE check_circular(_, _, _, _, _)
RECURSIVE check_circular_deps(_, _, _, _, _)

\* The loop over task.needs that reports the names that are no task.
unknown_errors(ts, t, deps) ==
    IF deps = <<>> THEN <<>>
    ELSE (IF Head(deps) \in Range(ts) THEN <<>>
          ELSE <<UnknownError(t, Head(deps))>>)
         \o unknown_errors(ts, t, Tail(deps))

\* check_circular that takes every name seen before for a cycle.
check_circular_visited_only(ts, nd, name, path, visited) ==
    IF name \in Range(path) \/ name \in visited
    THEN [path |-> path \o <<name>>, visited |-> visited]
    ELSE IF name \in Range(ts)
         THEN check_circular_deps(ts, nd, nd[name], path \o <<name>>,
                                  visited \cup {name})
         ELSE [path |-> <<>>, visited |-> visited \cup {name}]

\* check_circular(name, path) with the set `visited` it shares with its
\* recursive calls: the reported path (<<>> for None) and the set after.
check_circular(ts, nd, name, path, visited) ==
    IF name \in Range(path)
    THEN [path |-> path \o <<name>>, visited |-> visited]
    ELSE IF name \in visited
         THEN [path |-> <<>>, visited |-> visited]
         ELSE IF name \in Range(ts)
              THEN check_circular_deps(ts, nd, nd[name], path \o <<name>>,
                                       visited \cup {name})
              ELSE [path |-> <<>>, visited |-> visited \cup {name}]

\* The loop of check_circular over the needs of a name: it returns the
\* first result that is not None.
check_circular_deps(ts, nd, deps, path, visited) ==
    IF deps = <<>> THEN [path |-> <<>>, visited |-> visited]
    ELSE LET result == check_circular(ts, nd, Head(deps), path, visited)
         IN  IF result.path # <<>> THEN result
             ELSE check_circular_deps(ts, nd, Tail(deps), path,
                                      result.visited)

\* The body of the loop of validate_pipeline for one task: unknown needs,
\* then a cycle found from the task, then undefined variables of a command.
validate_task(ts, nd, kd, missing, t) ==
    LET circular_error == check_circular(ts, nd, t, <<>>, {}).path
    IN  unknown_errors(ts, t, nd[t])
        \o (IF circular_error # <<>>
            THEN <<CircularError(t, circular_error)>> ELSE <<>>)
        \o (IF kd[t] # "internal" /\ t \in missing
            THEN <<UndefinedError(t)>> ELSE <<>>)

RECURSIVE validate_from(_, _, _, _, _)

\* A variant of the loop that returns at the first task with an error.
validate_from_first_error(ts, nd, kd, missing, i) ==
    IF i > Len(ts) THEN <<>>
    ELSE LET errors == validate_task(ts, nd, kd, missing, ts[i])
         IN  IF errors # <<>> THEN errors
             ELSE validate_from(ts, nd, kd, missing, i + 1)

\* The loop of validate_pipeline from the i-th task on.
validate_from(ts, nd, kd, missing, i) ==
    IF i > Len(ts) THEN <<>>
    ELSE validate_task(ts, nd, kd, missing, ts[i])
         \o validate_from(ts, nd, kd, missing, i + 1)

\* validate_pipeline: the errors of all tasks, in the order of the tasks.
validate_pipeline(ts, nd, kd, missing) == validate_from(ts, nd, kd, missing, 1)

\* The longest command text of a checked definition.
MaxCmd == 4

\* The characters of a command text: the braces, two letters and a digit.
Chars == {"{", "}", "T", "U", "1"}

\* [A-Za-z_]
Letter == {"T", "U"}

\* [A-Za-z0-9_]
NameChar == {"T", "U", "1"}

\* The keys of self.variables: the variable T is defined.
Variables == {<<"T">>}

\* Every text of at most MaxCmd characters.
Texts == UNION {[1..n -> Chars] : n \in 0..MaxCmd}

\* Commands of the tasks of a definition: none, one without a placeholder,
\* one that uses the defined variable, one that uses an undefined variable.
SampleCommands == {<<>>, <<"T">>, <<"{", "T", "}">>, <<"{", "U", "}">>}

RECURSIVE name_end(_, _)

\* The greedy [A-Za-z0-9_]* from position j: the first position that holds
\* no name character.
name_end(text, j) ==
    IF j <= Len(text) /\ text[j] \in NameChar THEN name_end(text, j + 1) ELSE j

\* The pattern \{([A-Za-z_][A-Za-z0-9_]*)\} tried at position i: the
\* position of the closing brace of the match, 0 when there is none.
match_at(text, i) ==
    IF /\ text[i] = "{"
       /\ i + 1 <= Len(text)
       /\ text[i + 1] \in Letter
    THEN LET j == name_end(text, i + 2)
         IN  IF j <= Len(text) /\ text[j] = "}" THEN j ELSE 0
    ELSE 0

RECURSIVE findall(_, _)

\* set(re.findall(pattern, text)) from position i on: the groups of the
\* matches that do not overlap, found from left to right.
findall(text, i) ==
    IF i > Len(text) THEN {}
    ELSE LET m == match_at(text, i)
         IN  IF m > 0
             THEN {SubSeq(text, i + 1, m - 1)} \cup findall(text, m + 1)
             ELSE findall(text, i + 1)

\* validate_template_vars: the names the text requires that are no key of
\* available_vars; an empty text requires none.
validate_template_vars(text, available_vars) ==
    IF text = <<>> THEN {} ELSE findall(text, 1) \ available_vars

\* load_tasks reads a definition: two or three tasks, any needs lists
\* (a name that is no task is an unknown dependency), the first task
\* possibly internal, and sample commands for the first two tasks.
V_Load ==
    /\ v_pc = "idle"
    /\ \E ts \in {<<"A", "B">>, <<"A", "B", "C">>} :
          /\ v_tasks' = ts
          /\ \E nd \in [Range(ts) -> NeedsLists] : v_needs' = nd
          /\ \E k \in {"shell", "internal"} :
                v_kind' = [t \in Range(ts) |->
                              IF t = "A" THEN k ELSE "shell"]
          /\ \E ca \in SampleCommands, cb \in {<<"T">>, <<"{", "U", "}">>} :
                v_cmd' = [t \in Range(ts) |->
                             IF t = "A" THEN ca
                             ELSE IF t = "B" THEN cb ELSE <<"T">>]
    /\ v_pc' = "loaded"
    /\ UNCHANGED <<runnerVars, fileVars, extraVars, v_pipeline, v_missing, v_errors>>

\* load_tasks reads a definition of two shell tasks without needs; the
\* command of the first is any text of at most MaxCmd characters.
V_LoadText ==
    /\ v_pc = "idle"
    /\ v_tasks' = <<"A", "B">>
    /\ v_needs' = [t \in {"A", "B"} |-> <<>>]
    /\ v_kind' = [t \in {"A", "B"} |-> "shell"]
    /\ \E text \in Texts :
          v_cmd' = [t \in {"A", "B"} |-> IF t = "A" THEN text ELSE <<"T">>]
    /\ v_pc' = "loaded"
    /\ UNCHANGED <<runnerVars, fileVars, extraVars, v_pipeline, v_missing, v_errors>>

\* validate_pipeline on the loaded definition; v_missing: the tasks for
\* whose command validate_template_vars returns a name.
V_Validate ==
    /\ v_pc = "loaded"
    /\ LET missing == {t \in Range(v_tasks) :
                          validate_template_vars(v_cmd[t], Variables) # {}}
       IN  /\ v_missing' = missing
           /\ v_errors' = validate_pipeline(v_tasks, v_needs, v_kind, missing)
    /\ v_pc' = "validated"
    /\ UNCHANGED <<runnerVars, fileVars, extraVars, v_pipeline, v_tasks, v_needs, v_kind,
                   v_cmd>>

\* The longest `pipeline` list that is loaded entry by entry.
MaxTasks == 3

\* The entries of a `pipeline` list: a name (possibly missing), a needs
\* list, a shell command without placeholder.
Entries ==
    [name : {"A", "B", ""}, needs : {<<>>, <<"A">>, <<"B">>},
     kind : {"shell"}, cmd : {<<"T">>}]

\* Every `pipeline` list of at most MaxTasks entries.
PipelineLists == UNION {[1..n -> Entries] : n \in 0..MaxTasks}

\* The dict self.tasks before the first entry is loaded.
NoTasks == [ok |-> TRUE, keys |-> <<>>, task |-> <<>>]

\* self.tasks[task_name] = task: a new key is added after the others, the
\* task of a key that exists is replaced and the key keeps its place.
dict_set(d, entry) ==
    IF entry.name \in Range(d.keys)
    THEN [d EXCEPT !.task = (entry.name :> entry) @@ d.task]
    ELSE [d EXCEPT !.keys = Append(d.keys, entry.name),
                   !.task = (entry.name :> entry) @@ d.task]

RECURSIVE load_tasks(_, _)

\* The loop of load_tasks over the `pipeline` list: an entry without name
\* ends it with False.
load_tasks(pipeline, d) ==
    IF pipeline = <<>> \/ ~d.ok THEN d
    ELSE IF Head(pipeline).name = "" THEN [d EXCEPT !.ok = FALSE]
         ELSE load_tasks(Tail(pipeline), dict_set(d, Head(pipeline)))

\* load_tasks reads a `pipeline` list entry by entry.
V_LoadPipeline ==
    /\ v_pc = "idle"
    /\ \E pipeline \in PipelineLists :
          LET d == load_tasks(pipeline, NoTasks)
          IN  /\ v_pipeline' = pipeline
              /\ v_tasks' = d.keys
              /\ v_needs' = [t \in Range(d.keys) |-> d.task[t].needs]
              /\ v_kind' = [t \in Range(d.keys) |-> d.task[t].kind]
              /\ v_cmd' = [t \in Range(d.keys) |-> d.task[t].cmd]
              /\ v_pc' = IF d.ok THEN "loaded" ELSE "load_failed"
    /\ UNCHANGED <<runnerVars, fileVars, extraVars, v_missing, v_errors>>

ValidateNext ==
    \/ V_Load
    \/ V_LoadText
    \/ V_LoadPipeline
    \/ V_Validate

ValidateSpec == IdleRunnerInit /\ [][ValidateNext]_vars

\* The tasks a step along needs leads to from the names of S.
NeedsOf(S) ==
    UNION {Range(v_needs[t]) : t \in S \cap Range(v_tasks)}

RECURSIVE ReachedFrom(_, _)

\* The names reached from the names of S by one or more steps along needs,
\* added to `seen`.
ReachedFrom(S, seen) ==
    LET more == NeedsOf(S) \ seen
    IN  IF more = {} THEN seen ELSE ReachedFrom(more, seen \cup more)

\* The task lies on a cycle of the needs graph.
OnCycle(t) == t \in ReachedFrom({t}, {})

\* The circular-dependency errors of the returned list.
CircularErrors ==
    {v_errors[i] : i \in {j \in 1..Len(v_errors) :
                             v_errors[j].kind = "circular"}}

\* The reported path follows needs and ends where it closes a cycle.
RealCycle(path) ==
    /\ Len(path) >= 2
    /\ \A i \in 1..(Len(path) - 1) :
          /\ path[i] \in Range(v_tasks)
          /\ path[i + 1] \in Range(v_needs[path[i]])
    /\ \E i \in 1..(Len(path) - 1) : path[i] = path[Len(path)]

\* C14: for an acyclic needs graph validate_pipeline returns no
\* circular-dependency error; for a graph with a cycle, every cycle has a
\* task named by the path of a returned circular-dependency error, and
\* every reported path ends in a task that lies on a cycle.
C14_CyclesDetected ==
    v_pc = "validated" =>
        /\ \A t \in Range(v_tasks) :
              OnCycle(t) => \E e \in CircularErrors : t \in Range(e.path)
        /\ \A e \in CircularErrors :
              /\ RealCycle(e.path)
              /\ OnCycle(e.path[Len(e.path)])
        /\ (\A t \in Range(v_tasks) : ~OnCycle(t)) => CircularErrors = {}

\* A definition with two cycles was validated: C needs itself, A and B
\* need each other, and the search from A reports the cycle of C.
C14_Witness ==
    /\ v_pc = "validated"
    /\ v_tasks = <<"A", "B", "C">>
    /\ v_needs["A"] = <<"C", "B">>
    /\ v_needs["B"] = <<"A">>
    /\ v_needs["C"] = <<"C">>
    /\ \E e \in CircularErrors : e.path = <<"A", "C", "C">>

----------------------------------------------------------------------------
\* TaskRunner.run from its first statement: load_tasks, validate_pipeline,
\* and the run of the pipeline when neither fails.

\* Definitions validate_pipeline rejects. `missing` holds the tasks whose
\* command uses a variable that is not defined.
Cyclic ==
    [tasks |-> <<"A", "B">>,
     needs |-> ("A" :> {"B"} @@ "B" :> {"A"}),
     kind  |-> ("A" :> "shell" @@ "B" :> "shell"),
     missing |-> {}]

UnknownDep ==
    [tasks |-> <<"A", "B">>,
     needs |-> ("A" :> {} @@ "B" :> {"Z"}),
     kind  |-> ("A" :> "shell" @@ "B" :> "shell"),
     missing |-> {}]

UndefinedVar ==
    [tasks |-> <<"A", "B">>,
     needs |-> ("A" :> {} @@ "B" :> {"A"}),
     kind  |-> ("A" :> "shell" @@ "B" :> "shell"),
     missing |-> {"B"}]

\* Definitions validate_pipeline accepts; an internal task has no command
\* to check.
Definitions ==
    {Cyclic, UnknownDep, UndefinedVar}
    \cup {[tasks |-> p.tasks, needs |-> p.needs, kind |-> p.kind,
           missing |-> {}] : p \in {Reversed, WithInternal}}
    \cup {[tasks |-> WithInternal.tasks, needs |-> WithInternal.needs,
           kind |-> WithInternal.kind, missing |-> {"B"}]}

RECURSIVE SeqOf(_)

\* The names of a needs set as the list Task.needs holds.
SeqOf(S) ==
    IF S = {} THEN <<>>
    ELSE LET x == CHOOSE y \in S : TRUE IN <<x>> \o SeqOf(S \ {x})

\* TaskRunner.__init__ and the entry of run.
RunInit ==
    /\ \E p \in Definitions :
          /\ tasks = p.tasks
          /\ needs = p.needs
          /\ kind = p.kind
          /\ v_missing = p.missing
    /\ concurrency \in {1, MaxConcurrency}
    /\ use_database \in BOOLEAN
    /\ pc = "load"
    /\ Constructed
    /\ FileInit
    /\ ExtraInit
    /\ v_pc = "idle"
    /\ v_pipeline = <<>>
    /\ v_tasks = <<>>
    /\ v_needs = <<>>
    /\ v_kind = <<>>
    /\ v_cmd = <<>>
    /\ v_errors = <<>>

\* "if not self.load_tasks(): return False"
LoadTasks ==
    /\ pc = "load"
    /\ \E ok \in BOOLEAN : pc' = IF ok THEN "validate" ELSE "rejected"
    /\ UNCHANGED <<pipelineVars, auxVars, loopVars, use_database, run_id, stop,
                   status, task_id, proc, completed_tasks, failed_tasks,
                   self_running_tasks, stopped, wpc, outcome, admitted,
                   success, final_status, start_time, progress>>

\* A run that goes on whatever validate_pipeline returned.
run_rejects_never(validation_errors) == FALSE

\* "if validation_errors: ... return False"
run_rejects(validation_errors) == validation_errors # <<>>

\* "validation_errors = self.validate_pipeline()" and the return on errors.
ValidateRun ==
    /\ pc = "validate"
    /\ LET validation_errors ==
               validate_pipeline(tasks, [t \in Range(tasks) |-> SeqOf(needs[t])],
                                 kind, v_missing)
       IN  /\ v_errors' = validation_errors
           /\ pc' = IF run_rejects(validation_errors)
                    THEN "rejected" ELSE "run_start"
    /\ UNCHANGED <<pipelineVars, fileVars, extraVars, v_pc, v_pipeline, v_tasks, v_needs,
                   v_kind, v_cmd, v_missing, loopVars, use_database, run_id, stop,
                   status, task_id, proc, completed_tasks, failed_tasks,
                   self_running_tasks, stopped, wpc, outcome, admitted,
                   success, final_status, start_time, progress>>

RunNext ==
    \/ LoadTasks
    \/ ValidateRun
    \/ Next

RunSpec == RunInit /\ [][RunNext]_vars

\* run returned False before start_run.
Rejected == pc = "rejected"

\* No run record, no snapshot, no task admitted, no process, every task
\* PENDING.
NothingStarted ==
    /\ run_id = 0
    /\ progress = NoProgress
    /\ admitted = <<>>
    /\ self_running_tasks = {}
    /\ \A t \in Range(tasks) :
          /\ status[t] = "PENDING"
          /\ task_id[t] = FALSE
          /\ proc[t] = "none"
          /\ wpc[t] = "idle"

\* C15: when load_tasks fails or validate_pipeline returns an error, run
\* returns False and never goes on: no run record is created, no task is
\* admitted, no process is spawned and every task stays PENDING.
C15_InvalidPipelineNeverStarts ==
    /\ v_errors # <<>> => Rejected
    /\ Rejected => NothingStarted
    /\ pc \in {"load", "validate"} => NothingStarted

\* run returned False for a definition with a cycle.
C15_Witness ==
    /\ Rejected
    /\ \E i \in 1..Len(v_errors) : v_errors[i].kind = "circular"
    /\ NothingStarted

----------------------------------------------------------------------------
\* Further properties of the control loop and the workers.

\* C21: a task is submitted to the executor at most once in a run, and a
\* worker is queued for a task only when no worker was ever queued for it,
\* so that at most one worker executes a task at any time.
C21_SubmittedAtMostOnce ==
    [][/\ \A i, j \in 1..Len(admitted') : admitted'[i] = admitted'[j] => i = j
       /\ \A t \in Range(tasks) :
             (wpc'[t] = "queued" /\ wpc[t] # "queued") => wpc[t] = "idle"]_vars

\* The scan runs again while one task is DONE and out of running_tasks and
\* another is RUNNING in it.
C21_Witness ==
    /\ pc = "find_ready"
    /\ \E t \in Range(tasks) :
          /\ status[t] = "DONE"
          /\ t \notin Range(running_tasks)
          /\ is_ready(t, completed_tasks)
    /\ \E u \in Range(running_tasks) : status[u] = "RUNNING"

\* The ways a worker ends without success: a non-zero exit code, a failure
\* to start the command, a timeout, an internal operation that raised, a
\* command killed by a signal.
FailedOutcomes ==
    {"exit_nonzero", "spawn_fail", "timeout", "internal_raise", "signalled"}

SideChain ==
    [tasks |-> <<"A", "B", "C">>,
     needs |-> ("A" :> {} @@ "B" :> {} @@ "C" :> {"B"}),
     kind  |-> ("A" :> "shell" @@ "B" :> "shell" @@ "C" :> "internal")]

\* TaskRunner.__init__ after load_tasks and validate_pipeline accepted
\* SideChain.
SideInit ==
    /\ tasks = SideChain.tasks
    /\ needs = SideChain.needs
    /\ kind = SideChain.kind
    /\ concurrency \in {1, MaxConcurrency}
    /\ use_database \in BOOLEAN
    /\ pc = "run_start"
    /\ Constructed
    /\ FileInit
    /\ ValidateInit
    /\ ExtraInit

SideSpec == SideInit /\ [][Next]_vars

\* C23: when a run that was never asked to stop has returned, every task
\* that does not depend on a task with status ERROR and whose needs are all
\* DONE has been admitted.
C23_FailureContained ==
    (Returned /\ ~stop) =>
        \A e \in Range(tasks), t \in Range(tasks) :
            (/\ status[e] = "ERROR"
             /\ t # e
             /\ e \notin Deps(t)
             /\ \A d \in needs[t] : status[d] = "DONE") => wpc[t] # "idle"

----------------------------------------------------------------------------
\* The run with an unexpected exception inside the control loop.

\* A statement of the while loop raises (check_stop_flag, executor.submit,
\* a logger call, _cancel_running_tasks): the loop is left for the finally
\* clause.
LoopFault ==
    /\ pc \in {"loop_top", "find_ready", "admit", "mark_running", "reap", "cancel"}
    /\ pc' = "fault"
    /\ UNCHANGED <<pipelineVars, auxVars, loopVars, use_database, run_id, stop,
                   status, task_id, proc, completed_tasks, failed_tasks,
                   self_running_tasks, stopped, wpc, outcome, admitted,
                   success, final_status, start_time, progress>>

\* "Check completed tasks" for a future that is done, with write_json
\* raising inside _update_progress: the status and the sets are updated,
\* get_run has been called, progress.json is not replaced.
ReapFault ==
    /\ pc = "reap"
    /\ idx <= Len(running_tasks)
    /\ LET t == running_tasks[idx]
       IN /\ wpc[t] = "done"
          /\ IF future_result(t)
             THEN /\ status' = [status EXCEPT ![t] = "DONE"]
                  /\ completed_tasks' = completed_tasks \cup {t}
                  /\ UNCHANGED failed_tasks
             ELSE /\ status' = [status EXCEPT ![t] = "ERROR"]
                  /\ failed_tasks' = failed_tasks \cup {t}
                  /\ UNCHANGED completed_tasks
          /\ completed_futures' = Append(completed_futures, t)
          /\ \E dbok \in BOOLEAN :
                use_database' = update_progress_db(use_database, run_id, dbok)
    /\ pc' = "fault"
    /\ UNCHANGED <<pipelineVars, auxVars, start_time, progress, run_id, stop,
                   task_id, proc, self_running_tasks, running_tasks,
                   ready_tasks, to_admit, idx, stopped, wpc, outcome,
                   admitted, success, final_status>>

\* finally: executor.shutdown(wait=True) while the exception propagates
FaultShutdown ==
    /\ pc = "fault"
    /\ \A t \in Range(tasks) : wpc[t] \in {"idle", "done", "cancelled"}
    /\ pc' = "except"
    /\ UNCHANGED <<pipelineVars, auxVars, loopVars, use_database, run_id, stop,
                   status, task_id, proc, completed_tasks, failed_tasks,
                   self_running_tasks, stopped, wpc, outcome, admitted,
                   success, final_status, start_time, progress>>

\* "except Exception" of run: end_run with RunStatus.ERROR when the run has
\* an id and the database is in use, then return False; _execute_pipeline
\* returned no value.
RunExcept ==
    /\ pc = "except"
    /\ IF run_id # 0 /\ use_database
       THEN /\ final_status' = "ERROR"
            /\ \E dbok \in BOOLEAN : use_database' = safe_db_call(dbok)
       ELSE UNCHANGED <<final_status, use_database>>
    /\ pc' = "returned"
    /\ UNCHANGED <<pipelineVars, auxVars, loopVars, run_id, stop, status,
                   task_id, proc, completed_tasks, failed_tasks,
                   self_running_tasks, stopped, wpc, outcome, admitted,
                   success, start_time, progress>>

FaultNext ==
    \/ Next
    \/ LoopFault
    \/ ReapFault
    \/ FaultShutdown
    \/ RunExcept

\* The pipelines of two tasks.
FaultInit ==
    /\ Init
    /\ Len(tasks) = 2

FaultSpec == FaultInit /\ [][FaultNext]_vars

\* run returned False from its except clause.
Raised == pc = "returned" /\ success = "none"

\* C24: when an exception raised inside the control loop has been caught by
\* run, the run is recorded with status ERROR, no worker is still executing
\* and no command is alive.
C24_FaultRecordedAndWorkersJoined ==
    Raised =>
        /\ final_status = "ERROR"
        /\ Executing = {}
        /\ \A t \in Range(tasks) : proc[t] # "alive"

\* C25: when run returns True, every task of the pipeline has status DONE.
C25_TrueMeansAllDone ==
    (Returned /\ success = "True") => \A t \in Range(tasks) : status[t] = "DONE"

\* The place of a task in the definition order of self.tasks.
Pos(t) == CHOOSE i \in 1..Len(tasks) : tasks[i] = t

\* C26: when a task is submitted, every task that the scan of the same
\* iteration found ready and that is defined earlier has been submitted
\* already; when the admission of an iteration ends, every ready task left
\* out is defined later than every ready task admitted.
C26_AdmissionInDefinitionOrder ==
    [][/\ \A t \in Range(tasks) :
             (/\ Len(admitted') = Len(admitted) + 1
              /\ admitted'[Len(admitted')] = t)
                => \A u \in Range(ready_tasks) :
                      Pos(u) < Pos(t) => u \in Range(running_tasks)
       /\ (pc = "admit" /\ pc' = "reap")
             => \A u \in Range(ready_tasks) \ Range(running_tasks),
                   t \in Range(ready_tasks) \cap Range(running_tasks) :
                      Pos(t) < Pos(u)]_vars

\* With one slot and B and C of the diamond ready, B was admitted and C
\* was left PENDING.
C26_Witness ==
    /\ pc = "reap"
    /\ concurrency = 1
    /\ ready_tasks = <<"B", "C">>
    /\ running_tasks = <<"B">>
    /\ status["C"] = "PENDING"

\* C27: the step in which the command of a task times out leaves the
\* status, the process, the worker and the set membership of every other
\* task as they were, and it can be taken whenever the worker waits for a
\* live command, whether or not a stop has been requested or observed.
C27_TimeoutTouchesOwnTaskOnly ==
    /\ [][\A t \in Range(tasks) :
             (outcome'[t] = "timeout" /\ outcome[t] # "timeout") =>
                 /\ running_tasks' = running_tasks
                 /\ \A u \in Range(tasks) \ {t} :
                       /\ status'[u] = status[u]
                       /\ proc'[u] = proc[u]
                       /\ wpc'[u] = wpc[u]
                       /\ outcome'[u] = outcome[u]
                       /\ (u \in completed_tasks') = (u \in completed_tasks)
                       /\ (u \in failed_tasks') = (u \in failed_tasks)
                       /\ (u \in self_running_tasks') = (u \in self_running_tasks)]_vars
    /\ [](\A t \in Range(tasks) :
             (wpc[t] = "waiting" /\ proc[t] = "alive") => ENABLED Timeout(t))

\* A command timed out after a stop request, next to a live command of a
\* task that is RUNNING.
C27_Witness ==
    /\ stop
    /\ \E t \in Range(tasks), u \in Range(tasks) :
          /\ t # u
          /\ outcome[t] = "timeout"
          /\ wpc[t] = "returning"
          /\ proc[u] = "alive"
          /\ status[u] = "RUNNING"

\* C28: when run has returned, the last progress snapshot carries a
\* terminal status of the run.
C28_FinalSnapshotTerminal ==
    Returned => progress.status \in {"DONE", "ERROR", "CANCELLED"}

\* C29: at the end of every iteration of the control loop, with the
\* database in use, the last snapshot names the first task with status
\* RUNNING as current_task and counts the tasks with status DONE.
C29_SnapshotFollowsState ==
    (pc = "loop_top" /\ use_database) =>
        /\ progress.current_task = first_running(status)
        /\ progress.done = Cardinality({t \in Range(tasks) : status[t] = "DONE"})

----------------------------------------------------------------------------
\* The errors validate_pipeline collects.

\* The text between two braces is a name: a letter, then letters or digits.
IsName(w) ==
    /\ Len(w) >= 1
    /\ w[1] \in Letter
    /\ \A k \in 1..Len(w) : w[k] \in NameChar

\* The names of the {NAME} placeholders a text contains.
Placeholders(text) ==
    {SubSeq(text, i + 1, j - 1) :
        <<i, j>> \in {ij \in (1..Len(text)) \X (1..Len(text)) :
                         /\ ij[1] < ij[2]
                         /\ text[ij[1]] = "{"
                         /\ text[ij[2]] = "}"
                         /\ IsName(SubSeq(text, ij[1] + 1, ij[2] - 1))}}

\* The errors of the returned list.
Errors == Range(v_errors)

\* C30: the list validate_pipeline returns holds an unknown-dependency
\* error for exactly the pairs of a task and a needs entry that is no task
\* name, and an undefined-variable error for exactly the tasks that are not
\* internal and whose command has a {NAME} placeholder that is no key of the
\* variables, whatever the errors of the tasks before.
C30_AllErrorsCollected ==
    v_pc = "validated" =>
        /\ \A t \in Range(v_tasks), dep \in Names :
              (dep \in Range(v_needs[t]) /\ dep \notin Range(v_tasks))
                 <=> UnknownError(t, dep) \in Errors
        /\ \A t \in Range(v_tasks) :
              (/\ v_kind[t] # "internal"
               /\ Placeholders(v_cmd[t]) \ Variables # {})
                 <=> UndefinedError(t) \in Errors
        /\ \A e \in Errors : e.task \in Range(v_tasks)

\* One list holds an unknown dependency and an undefined variable of A, a
\* cycle through B, and an undefined variable of B.
C30_Witness ==
    /\ v_pc = "validated"
    /\ UnknownError("A", "C") \in Errors
    /\ UndefinedError("A") \in Errors
    /\ UndefinedError("B") \in Errors
    /\ \E e \in Errors : e.kind = "circular" /\ e.task = "B"
    /\ Len(v_errors) >= 5

\* Two entries of the loaded `pipeline` list have the same name.
DuplicateNames ==
    \E i, j \in 1..Len(v_pipeline) :
        i # j /\ v_pipeline[i].name = v_pipeline[j].name

\* load_tasks returned True and validate_pipeline returned no error.
Runnable == v_pc = "validated" /\ v_errors = <<>>

\* C31: a `pipeline` list with two entries of the same name never comes
\* out of load_tasks and validate_pipeline as a runnable task set.
C31_DuplicateNamesRejected == DuplicateNames => ~Runnable

----------------------------------------------------------------------------
\* materialize_env: the substitution passes over the variable mapping.

\* The longest value of a variable before the first pass.
MaxValue == 2

\* max_iterations of materialize_env
max_iterations == 5

\* The keys of the mapping, in the order of the dict.
Keys == <<"X", "Y">>

\* The pattern f"{{{key}}}" of a key, as one token of a value.
Pattern == [k \in Range(Keys) |-> IF k = "X" THEN "{X}" ELSE "{Y}"]

\* The tokens of a value: a literal character and the two patterns.
Tokens == {"a", "{X}", "{Y}"}

\* The values before the first pass: at most MaxValue tokens, at most one
\* of them a pattern.
Values ==
    {w \in UNION {[1..n -> Tokens] : n \in 0..MaxValue} :
        Cardinality({i \in 1..Len(w) : w[i] # "a"}) <= 1}

RECURSIVE str_replace(_, _, _)

\* result.replace(pattern, str(value))
str_replace(text, pattern, value) ==
    IF text = <<>> THEN <<>>
    ELSE (IF Head(text) = pattern THEN value ELSE <<Head(text)>>)
         \o str_replace(Tail(text), pattern, value)

RECURSIVE render_from(_, _, _)

\* The first pass of TemplateRenderer.render from the i-th key on: one
\* replace per key, in the order of the dict, each on the result of the one
\* before. The second pass (Jinja2) leaves a text of these tokens as it is.
render_from(text, variables, i) ==
    IF i > Len(Keys) THEN text
    ELSE render_from(str_replace(text, Pattern[Keys[i]], variables[Keys[i]]),
                     variables, i + 1)

\* TemplateRenderer.render; an empty text is returned as it is.
render(text, variables) ==
    IF text = <<>> THEN text ELSE render_from(text, variables, 1)

\* TemplateRenderer.render_dict on a mapping of strings
render_dict(data, variables) ==
    [k \in DOMAIN data |-> render(data[k], variables)]

\* A variant of the test of convergence that compares the first key only.
converged_first_key(variables, old_variables) ==
    variables[Keys[1]] = old_variables[Keys[1]]

\* "Check for convergence": variables == old_variables
converged(variables, old_variables) == variables = old_variables

\* materialize_env builds the mapping from the base variables, the
\* environment and custom_vars.
M_Start ==
    /\ m_pc = "idle"
    /\ \E variables \in [Range(Keys) -> Values] : m_variables' = variables
    /\ m_pc' = "loop"
    /\ UNCHANGED <<except_template, m_passes, m_converged, m_warned>>

\* One iteration of "for _ in range(max_iterations)": a pass of
\* render_dict, then the break on convergence or the end of the range.
M_Pass ==
    /\ m_pc = "loop"
    /\ m_passes < max_iterations
    /\ LET old_variables == m_variables
           variables == render_dict(old_variables, old_variables)
       IN  /\ m_variables' = variables
           /\ m_passes' = m_passes + 1
           /\ m_converged' = converged(variables, old_variables)
           /\ m_pc' = IF converged(variables, old_variables)
                         \/ m_passes + 1 = max_iterations
                      THEN "returned" ELSE "loop"
    /\ UNCHANGED <<except_template, m_warned>>

TemplateNext ==
    \/ M_Start
    \/ M_Pass

TemplateSpec == IdleRunnerInit /\ [][TemplateNext]_vars

\* C32: materialize_env makes at most 5 substitution passes and then
\* returns, and a mapping it returns after a pass that changed nothing is
\* left unchanged by one more pass.
C32_BoundedPassesAndFixedPoint ==
    /\ m_passes <= 5
    /\ m_pc = "loop" => m_passes < 5
    /\ (m_pc = "returned" /\ m_converged) =>
          render_dict(m_variables, m_variables) = m_variables

\* X held the pattern of Y and a literal: the first pass resolved it, the
\* second changed nothing.
C32_Witness ==
    /\ m_pc = "returned"
    /\ m_converged
    /\ m_passes = 2
    /\ m_variables["X"] = <<"a", "a">>

\* C33: when materialize_env returns after the 5th pass without
\* convergence, a warning has been emitted.
C33_WarningWhenNotConverged ==
    (m_pc = "returned" /\ ~m_converged) => m_warned

----------------------------------------------------------------------------
\* TaskRunner._kill_process_tree: the process tree of a task is ended on
\* timeout and on cancellation.

\* The exceptions the two except clauses of _kill_process_tree catch.
caught(e) == e \in {"ProcessLookupError", "PermissionError"}

\* os.getpgid(process.pid): the pid is known until the process is reaped.
getpgid(leader) == IF leader = "gone" THEN "ProcessLookupError" ELSE "ok"

\* A signal that ends the Popen process: it stays as a zombie until it is
\* waited for.
ended(p) == IF p = "alive" THEN "zombie" ELSE p

\* The call: from the timeout handler the process has not been waited for;
\* from _cancel_running_tasks the worker may already have reaped it.
K_Call ==
    /\ k_pc = "idle"
    /\ \E os \in {"nt", "posix"}, caller \in {"timeout", "cancel"},
          leader \in {"alive", "zombie", "gone"}, children \in SUBSET Children :
          /\ leader = "gone" => caller = "cancel"
          /\ k_os' = os
          /\ k_caller' = caller
          /\ k_leader' = leader
          /\ k_children' = children
    /\ k_pc' = "term"
    /\ UNCHANGED <<except_kill, k_signals, k_slept>>

\* A process of the group exits by itself, for instance on SIGTERM.
K_Exit ==
    /\ k_pc \in {"term", "sleep", "kill"}
    /\ \/ /\ k_leader = "alive"
          /\ k_leader' = "zombie"
          /\ UNCHANGED k_children
       \/ /\ \E c \in k_children : k_children' = k_children \ {c}
          /\ UNCHANGED k_leader
    /\ UNCHANGED <<except_kill, k_pc, k_os, k_caller, k_signals, k_slept>>

\* process.wait(timeout) of the worker returns and reaps the exited process,
\* while _cancel_running_tasks is in _kill_process_tree.
K_Reap ==
    /\ k_pc \in {"term", "sleep", "kill"}
    /\ k_caller = "cancel"
    /\ k_leader = "zombie"
    /\ k_leader' = "gone"
    /\ UNCHANGED <<except_kill, k_pc, k_os, k_caller, k_children, k_signals, k_slept>>

\* The first step: process.terminate() on Windows, SIGTERM to the process
\* group elsewhere.
K_Term ==
    /\ k_pc = "term"
    /\ IF k_os = "nt"
       THEN /\ k_signals' = Append(k_signals, <<"terminate", "process">>)
            /\ k_leader' = ended(k_leader)
            /\ k_pc' = "sleep"
       ELSE IF getpgid(k_leader) # "ok"
       THEN /\ k_pc' = IF caught(getpgid(k_leader)) THEN "returned" ELSE "raised"
            /\ UNCHANGED <<k_signals, k_leader>>
       ELSE /\ k_signals' = Append(k_signals, <<"SIGTERM", "group">>)
            /\ k_pc' = "sleep"
            /\ UNCHANGED k_leader
    /\ UNCHANGED <<except_kill, k_os, k_caller, k_children, k_slept>>

\* time.sleep(config.HARD_KILL_GRACE)
K_Sleep ==
    /\ k_pc = "sleep"
    /\ k_slept' = TRUE
    /\ k_pc' = "kill"
    /\ UNCHANGED <<except_kill, k_os, k_caller, k_leader, k_children, k_signals>>

\* The last step: process.kill() on Windows if poll() finds the process
\* running, SIGKILL to the process group elsewhere.
K_Kill ==
    /\ k_pc = "kill"
    /\ IF k_os = "nt"
       THEN /\ k_signals' = IF k_leader = "alive"
                            THEN Append(k_signals, <<"kill", "process">>)
                            ELSE k_signals
            /\ k_leader' = ended(k_leader)
            /\ k_pc' = "returned"
            /\ UNCHANGED k_children
       ELSE IF getpgid(k_leader) # "ok"
       THEN /\ k_pc' = IF caught(getpgid(k_leader)) THEN "returned" ELSE "raised"
            /\ UNCHANGED <<k_signals, k_leader, k_children>>
       ELSE /\ k_signals' = Append(k_signals, <<"SIGKILL", "group">>)
            /\ k_leader' = ended(k_leader)
            /\ k_children' = {}
            /\ k_pc' = "returned"
    /\ UNCHANGED <<except_kill, k_os, k_caller, k_slept>>

KillNext ==
    \/ K_Call
    \/ K_Exit
    \/ K_Reap
    \/ K_Term
    \/ K_Sleep
    \/ K_Kill

KillSpec == IdleRunnerInit /\ [][KillNext]_vars

\* C34: _kill_process_tree signals the whole process group, gracefully
\* first and forcibly after the grace period, and a process that has
\* already exited makes it return without an error: the signals sent are
\* SIGTERM to the group, then after the sleep SIGKILL to the group; no
\* exception leaves the function; and a call that returns while the process
\* is still known has sent both.
C34_GroupTermThenKill ==
    /\ k_pc # "raised"
    /\ k_signals \in {<<>>, << <<"SIGTERM", "group">> >>,
                      << <<"SIGTERM", "group">>, <<"SIGKILL", "group">> >>}
    /\ Len(k_signals) = 2 => k_slept
    /\ (k_pc = "returned" /\ k_leader # "gone") => Len(k_signals) = 2

----------------------------------------------------------------------------
\* Database (db.py): the SQLite store of runs, tasks and events.  Every
\* operation opens its own connection with get_connection, which commits
\* when its block ends and rolls back when an exception leaves it.

MaxId == 2
MaxEvents == 2

Ids == 1..MaxId
RowOps == {"start_run", "start_task", "end_task", "end_run"}
RunStatuses == {"DONE", "ERROR", "CANCELLED"}
TaskStatuses == {"DONE", "ERROR", "CANCELLED"}

\* The statements an operation executes on its connection before it logs
\* its event: an INSERT, or UPDATEs of the rows with the given id.
execute(op, id, st, rows) ==
    CASE op = "start_run" ->
           [rows EXCEPT !.runs = Append(@, [status |-> "RUNNING", completed_tasks |-> 0])]
      [] op = "start_task" ->
           [rows EXCEPT !.tasks = Append(@, [run_id |-> id, status |-> "RUNNING"])]
      [] op = "end_run" ->
           [rows EXCEPT !.runs = [r \in DOMAIN @ |->
               IF r = id THEN [@[r] EXCEPT !.status = st] ELSE @[r]]]
      [] op = "end_task" ->
           LET task_row == rows.tasks[id]
           IN  [runs |-> [r \in DOMAIN rows.runs |->
                   IF r = task_row.run_id /\ st = "DONE"
                   THEN [rows.runs[r] EXCEPT !.completed_tasks = @ + 1]
                   ELSE rows.runs[r]],
                tasks |-> [rows.tasks EXCEPT ![id].status = st]]

\* A call of an operation of Database; get_connection opens a connection.
D_Call ==
    /\ d_pc \in {"idle", "returned", "raised"}
    /\ \E op \in RowOps \cup {"log_event"}, id \in Ids,
          st \in RunStatuses \cup TaskStatuses \cup {"none"} :
          /\ op \in {"start_run", "start_task", "log_event"} <=> st = "none"
          /\ op = "start_run" => id = 1
          /\ op = "end_run" => st \in RunStatuses
          /\ op = "end_task" => st \in TaskStatuses
          /\ op = "log_event" => Len(d_events) < MaxEvents
          /\ d_op' = op
          /\ d_id' = id
          /\ d_status' = st
    /\ d_conn' = [runs |-> d_runs, tasks |-> d_tasks]
    /\ d_error' = "none"
    /\ d_pc' = IF d_op' = "log_event" THEN "log" ELSE "execute"
    /\ UNCHANGED <<except_db, d_runs, d_tasks, d_events, d_writer>>

\* The row change inside "with self.get_connection() as conn": the first
\* INSERT or UPDATE begins a transaction that holds the write lock of the
\* file until the connection commits or rolls back.  end_task first selects
\* its row and raises ValueError if there is none.
D_Execute ==
    /\ d_pc = "execute"
    /\ IF d_op = "end_task" /\ d_id \notin DOMAIN d_conn.tasks
       THEN /\ d_error' = "ValueError"
            /\ d_pc' = "exit"
            /\ UNCHANGED <<d_conn, d_writer>>
       ELSE /\ d_conn' = execute(d_op, d_id, d_status, d_conn)
            /\ d_writer' = "conn"
            /\ d_pc' = "log"
            /\ UNCHANGED d_error
    /\ UNCHANGED <<except_db, d_op, d_id, d_status, d_runs, d_tasks, d_events>>

\* log_event: a second connection inserts the event and commits.  Its
\* INSERT needs the write lock; while another connection holds it, SQLite
\* reports it busy until the timeout of connect, and execute raises
\* OperationalError ("database is locked").
D_LogEvent ==
    /\ d_pc = "log"
    /\ IF d_writer # "none"
       THEN /\ d_error' = "OperationalError"
            /\ UNCHANGED d_events
       ELSE /\ d_events' = Append(d_events, d_id)
            /\ UNCHANGED d_error
    /\ d_pc' = IF d_op # "log_event" THEN "exit"
               ELSE IF d_writer # "none" THEN "raised" ELSE "returned"
    /\ UNCHANGED <<except_db, d_op, d_id, d_status, d_runs, d_tasks, d_conn, d_writer>>

\* The end of the block of get_connection: commit, or rollback and re-raise
\* when an exception leaves the block; the connection is closed.
D_Exit ==
    /\ d_pc = "exit"
    /\ IF d_error = "none"
       THEN /\ d_runs' = d_conn.runs
            /\ d_tasks' = d_conn.tasks
            /\ d_pc' = "returned"
            /\ UNCHANGED d_conn
       ELSE /\ d_conn' = [runs |-> d_runs, tasks |-> d_tasks]
            /\ d_pc' = "raised"
            /\ UNCHANGED <<d_runs, d_tasks>>
    /\ d_writer' = "none"
    /\ UNCHANGED <<except_db, d_op, d_id, d_status, d_events, d_error>>

DbNext ==
    \/ D_Call
    \/ D_Execute
    \/ D_LogEvent
    \/ D_Exit

DbSpec == IdleRunnerInit /\ [][DbNext]_vars

\* C35: with no other writer, start_run, start_task, end_task and end_run
\* return successfully, with the row change and the event persisted: the
\* only failure of one of them is end_task on a task id that has no row,
\* and an operation that raised has changed no row.
C35_RowOperationsSucceed ==
    (d_op \in RowOps /\ d_pc = "raised") =>
        /\ d_op = "end_task"
        /\ d_error = "ValueError"
        /\ d_conn = [runs |-> d_runs, tasks |-> d_tasks]

----------------------------------------------------------------------------
\* FileLock and file_lock (utils.py): the lock file of a target is created
\* with O_CREAT | O_EXCL by the process that acquires the lock and unlinked
\* by release.

\* release acts only in a FileLock that holds a descriptor.
release_acts_always(fd) == TRUE

release_acts(fd) == fd # "none"

\* file_lock is entered: FileLock(lock_file, timeout), then acquire.
L_Enter(p) ==
    /\ l_pc[p] = "idle"
    /\ l_pc' = [l_pc EXCEPT ![p] = "acquire"]
    /\ l_tried' = [l_tried EXCEPT ![p] = FALSE]
    /\ UNCHANGED <<except_lock, l_file, l_fd>>

\* One iteration of the loop of acquire: os.open creates the file and
\* acquire returns, or the file exists and the loop sleeps.
L_Open(p) ==
    /\ l_pc[p] = "acquire"
    /\ IF l_file = "none"
       THEN /\ l_file' = p
            /\ l_fd' = [l_fd EXCEPT ![p] = "open"]
            /\ l_pc' = [l_pc EXCEPT ![p] = "held"]
       ELSE UNCHANGED <<l_file, l_fd, l_pc>>
    /\ l_tried' = [l_tried EXCEPT ![p] = TRUE]
    /\ UNCHANGED except_lock

\* The timeout has passed: acquire raises TimeoutError and the finally
\* clause of file_lock calls release.
L_Timeout(p) ==
    /\ l_pc[p] = "acquire"
    /\ l_tried[p]
    /\ l_file' = IF release_acts(l_fd[p]) THEN "none" ELSE l_file
    /\ l_fd' = [l_fd EXCEPT ![p] = "none"]
    /\ l_pc' = [l_pc EXCEPT ![p] = "raised"]
    /\ UNCHANGED <<except_lock, l_tried>>

\* The body of the with statement ends and release begins: os.close(fd),
\* self.fd = None.
L_Close(p) ==
    /\ l_pc[p] = "held"
    /\ release_acts(l_fd[p])
    /\ l_fd' = [l_fd EXCEPT ![p] = "none"]
    /\ l_pc' = [l_pc EXCEPT ![p] = "unlink"]
    /\ UNCHANGED <<except_lock, l_file, l_tried>>

\* release ends: os.unlink(lock_file), FileNotFoundError ignored.
L_Unlink(p) ==
    /\ l_pc[p] = "unlink"
    /\ l_file' = "none"
    /\ l_pc' = [l_pc EXCEPT ![p] = "idle"]
    /\ UNCHANGED <<except_lock, l_fd, l_tried>>

\* The process that got TimeoutError exits; another run may be started.
L_Exit(p) ==
    /\ l_pc[p] = "raised"
    /\ l_pc' = [l_pc EXCEPT ![p] = "idle"]
    /\ UNCHANGED <<except_lock, l_file, l_fd, l_tried>>

LockNext ==
    \E p \in Procs :
        \/ L_Enter(p)
        \/ L_Open(p)
        \/ L_Timeout(p)
        \/ L_Close(p)
        \/ L_Unlink(p)
        \/ L_Exit(p)

LockSpec == IdleRunnerInit /\ [][LockNext]_vars

\* The processes inside the with statement of file_lock.
Holders == {p \in Procs : l_pc[p] = "held"}

\* C37: FileLock is mutually exclusive and a timeout leaves the holder's
\* lock file alone: at most one process is inside the with statement, and
\* while one is, the lock file is the one it created, whatever the others
\* do, timing out included.
C37_MutualExclusion ==
    /\ Cardinality(Holders) <= 1
    /\ \A p \in Holders : l_file = p

\* A process holds the lock after another one has timed out on it.
C37_Witness ==
    \E p, q \in Procs : l_pc[p] = "held" /\ l_pc[q] = "raised" /\ l_file = p

----------------------------------------------------------------------------
\* SimpleTaskRunner.run (simple_runner.py): the scheduling loop, which runs
\* the tasks one at a time in passes over the pipeline list.

\* The longest pipeline list.
MaxPipeline == 3

\* The entries of the pipeline list: a name and a needs list, which may
\* name the task itself, another task or no task of the list.
SimpleTasks == [name : {"A", "B", "C"}, needs : {<<>>, <<"A">>, <<"B">>, <<"X">>}]

SimplePipelines == UNION {[1..n -> SimpleTasks] : n \in 1..MaxPipeline}

\* max_attempts = len(tasks) * 3
max_attempts(pipeline) == Len(pipeline) * 3

\* task_name in self.completed_tasks or task_name in self.failed_tasks
processed(task, completed, failed) == task.name \in completed \cup failed

\* all(dep in self.completed_tasks for dep in needs)
deps_ready(task, completed) == Range(task.needs) \subseteq completed

\* The tasks a pass without progress puts in failed_tasks: none.
blocked_names_none(pipeline, completed, failed) == {}

\* The tasks a pass without progress puts in failed_tasks: the remaining
\* tasks with a dependency that is not completed.
blocked_names(pipeline, completed, failed) ==
    {pipeline[i].name : i \in {j \in DOMAIN pipeline :
        /\ ~processed(pipeline[j], completed, failed)
        /\ ~deps_ready(pipeline[j], completed)}}

\* The loop is reached with the pipeline list of tasks.yaml.
S_Enter ==
    /\ s_pc = "idle"
    /\ \E pipeline \in SimplePipelines : s_tasks' = pipeline
    /\ s_pc' = "while"
    /\ UNCHANGED <<except_simple, s_completed, s_failed, s_attempt, s_i,
                   s_progress_made, s_executed, s_stopped>>

\* The test of the while loop and the head of a pass: the stop request
\* breaks out of the loop.
S_While ==
    /\ s_pc = "while"
    /\ IF /\ Cardinality(s_completed) + Cardinality(s_failed) < Len(s_tasks)
          /\ s_attempt < max_attempts(s_tasks)
       THEN /\ s_attempt' = s_attempt + 1
            /\ \/ /\ s_stopped' = TRUE
                  /\ s_pc' = "ended"
                  /\ UNCHANGED <<s_i, s_progress_made>>
               \/ /\ s_progress_made' = FALSE
                  /\ s_i' = 1
                  /\ s_pc' = "for"
                  /\ UNCHANGED s_stopped
       ELSE /\ s_pc' = "ended"
            /\ UNCHANGED <<s_attempt, s_i, s_progress_made, s_stopped>>
    /\ UNCHANGED <<except_simple, s_tasks, s_completed, s_failed, s_executed>>

\* One task of the for loop: skipped if processed or not ready, else
\* execute_task runs it and puts it in completed_tasks or failed_tasks.
S_Task ==
    /\ s_pc = "for"
    /\ s_i <= Len(s_tasks)
    /\ LET task == s_tasks[s_i]
       IN  IF /\ ~processed(task, s_completed, s_failed)
              /\ deps_ready(task, s_completed)
           THEN /\ \/ /\ s_completed' = s_completed \cup {task.name}
                      /\ UNCHANGED s_failed
                   \/ /\ s_failed' = s_failed \cup {task.name}
                      /\ UNCHANGED s_completed
                /\ s_executed' = s_executed \cup {s_i}
                /\ s_progress_made' = TRUE
           ELSE UNCHANGED <<s_completed, s_failed, s_executed, s_progress_made>>
    /\ s_i' = s_i + 1
    /\ UNCHANGED <<except_simple, s_pc, s_tasks, s_attempt, s_stopped>>

\* The end of a pass: without progress the blocked tasks are put in
\* failed_tasks and the loop is left.
S_PassEnd ==
    /\ s_pc = "for"
    /\ s_i > Len(s_tasks)
    /\ IF s_progress_made
       THEN /\ s_pc' = "while"
            /\ UNCHANGED s_failed
       ELSE /\ s_failed' = s_failed \cup blocked_names(s_tasks, s_completed, s_failed)
            /\ s_pc' = "ended"
    /\ UNCHANGED <<except_simple, s_tasks, s_completed, s_attempt, s_i,
                   s_progress_made, s_executed, s_stopped>>

SimpleNext ==
    \/ S_Enter
    \/ S_While
    \/ S_Task
    \/ S_PassEnd

SimpleSpec == IdleRunnerInit /\ [][SimpleNext]_vars

\* C38: the scheduling loop of SimpleTaskRunner.run ends within
\* len(tasks) * 3 passes, and when it has ended without a stop request
\* every task is in exactly one of completed_tasks and failed_tasks; a task
\* is executed only when all its dependencies are completed, so a task
\* blocked by a failed or missing dependency is failed without being run.
C38_LoopEndsAndClassifiesAll ==
    /\ s_attempt <= Len(s_tasks) * 3
    /\ s_completed \cap s_failed = {}
    /\ \A i \in s_executed : Range(s_tasks[i].needs) \subseteq s_completed
    /\ (s_pc = "ended" /\ ~s_stopped) =>
          \A i \in DOMAIN s_tasks : s_tasks[i].name \in s_completed \cup s_failed

\* The loop has ended with task A failed after running, with task B, which
\* needs A, failed without running, and with task C completed.
C38_Witness ==
    /\ s_pc = "ended"
    /\ ~s_stopped
    /\ s_tasks = <<[name |-> "B", needs |-> <<"A">>], [name |-> "A", needs |-> <<>>],
                   [name |-> "C", needs |-> <<>>]>>
    /\ s_failed = {"A", "B"}
    /\ s_completed = {"C"}
    /\ s_executed = {2, 3}

----------------------------------------------------------------------------
\* FileBasedDB (db_file_based.py): runs, tasks and events kept as JSON
\* lists, each operation reading its list, appending and writing it back
\* under self.lock.

\* The most runs and tasks started, and the most events logged.
MaxStarted == 2
MaxLogged == 1002

\* The events kept in events.json.
event_cap == 1000

\* len(rows) + 1
next_id(rows) == Len(rows) + 1

\* events[-1000:] when there are more than 1000 events.
last_events(events) ==
    IF Len(events) > event_cap
    THEN SubSeq(events, Len(events) - event_cap + 1, Len(events))
    ELSE events

F_StartRun ==
    /\ Len(f_runs) < MaxStarted
    /\ f_runs' = Append(f_runs, next_id(f_runs))
    /\ UNCHANGED <<except_filedb, f_tasks, f_events, f_logged>>

F_StartTask ==
    /\ Len(f_tasks) < MaxStarted
    /\ f_tasks' = Append(f_tasks, next_id(f_tasks))
    /\ UNCHANGED <<except_filedb, f_runs, f_events, f_logged>>

F_LogEvent ==
    /\ f_logged < MaxLogged
    /\ f_events' = last_events(Append(f_events, next_id(f_events)))
    /\ f_logged' = f_logged + 1
    /\ UNCHANGED <<except_filedb, f_runs, f_tasks>>

FileDbNext ==
    \/ F_StartRun
    \/ F_StartTask
    \/ F_LogEvent

FileDbSpec == IdleRunnerInit /\ [][FileDbNext]_vars

\* The ids of a list of rows are all different.
UniqueIds(rows) == Cardinality(Range(rows)) = Len(rows)

\* C39: every run, task and event of FileBasedDB has an id that no other
\* row of its file has, also once events.json has reached its cap and old
\* events are dropped.
C39_IdsUnique ==
    /\ UniqueIds(f_runs)
    /\ UniqueIds(f_tasks)
    /\ UniqueIds(f_events)

====
